---- MODULE Spec2Model ----
(***************************************************************************)
(* Luminum: the Linux client (src/client/linux/src/main.rs) and the server *)
(* daemon (src/server/src/main.rs).                                        *)
(*                                                                         *)
(* The model follows one client process through its runs (start, connect,  *)
(* TLS handshake, listener thread, registration check, write_to_server),   *)
(* the server's accept loop (accept, TLS accept, handle_client,            *)
(* handle_json) and the peers that connect to the server (Spec, FairSpec); *)
(* one client channel that carries a sequence of frames (ChanSpec); the    *)
(* classification of the client's local address (AddrSpec); and the        *)
(* server's installation: daemonsetup with generate_private_key and        *)
(* generate_certificate, the vault, and the start of the service           *)
(* (SetupSpec).                                                            *)
(***************************************************************************)
EXTENDS Integers, Sequences, FiniteSets, TLC

(***************************************************************************)
(* Bounds of the model.                                                    *)
(***************************************************************************)
\* number of runs of the client process that are followed
MaxRuns == 2
\* number of frames the far end may put on one client connection
MaxFrames == 1
\* number of failed TCP connects in one run that are followed
MaxConnFails == 2
\* number of peers, other than the Luminum client, that connect to the server
MaxPeers == 1
\* number of frames on one client connection where a sequence of frames is followed
MaxBurst == 2
\* number of groups of the local addresses that are classified
MaxGroups == 9
\* number of runs of the server process that are followed
MaxDaemonRuns == 2
\* number of seconds that pass while a certificate is generated
MaxTicks == 1

(***************************************************************************)
(* Program constants.                                                      *)
(***************************************************************************)
\* thread::sleep(Duration::from_secs(30)) between two TCP connects
RetrySecs == 30

VARIABLES
    endpoint,       \* what listens at SHOST:SPORT: the Luminum server or another TLS server
    cfgExists,      \* client: CFGPATH exists
    cfgRows,        \* client: rows of table CONFIG, in insertion order
    clientconfig,   \* client: the HashMap filled from CONFIG at startup
    c_pc,           \* client: position of the main thread ("off": no process)
    c_exit,         \* client: exit code of the last run
    c_why,          \* client: what ended the last run
    runs,           \* client: runs started so far
    uidAtStart,     \* client: CONFIG held a UID row when this run started
    connFails,      \* client: failed TCP connects in this run
    sleepSecs,      \* client: length of the sleep in progress
    l_pc,           \* client: position of the listener thread
    streamLock,     \* client: holder of the Mutex around server_stream
    lockPoisoned,   \* client: the Mutex is poisoned
    buffer,         \* client: the listener's buffer
    response,       \* client: the listener's deserialized ServerMessage
    processed,      \* client: the ServerMessages the listener has deserialized on this channel
    sentRegs,       \* client: register messages written in this run
    s2c,            \* frames written by the far end, not yet read by the client
    s2cState,       \* client's inbound stream: "open", "eof" or "err"
    svr_pc,         \* server: position of the main thread in the accept loop
    svr_conn,       \* server: the connection the main thread is serving
    backlog,        \* server: connections waiting in the listener's accept queue
    svrLog,         \* server: the report written since the last accept ("none": none)
    svrHandled,     \* server: register requests handle_client has read
    svrWrites,      \* server: frames the server has written to its connections
    clientsDb,      \* server: registration records in the CLIENTS database
    a_pc,           \* address classification: "none" (not followed), "start" or "done"
    ip_address,     \* client: local_addr.ip().to_string(), one character per element
    ipv4_address,   \* client: the ipv4 field of the register message's MessageData
    ipv6_address,   \* client: the ipv6 field of the register message's MessageData
    d_pc,           \* server process: position of main / daemonsetup ("off": no process)
    d_mode,         \* server process: "setup" (run with --setup) or "service"
    d_path,         \* daemonsetup: "fresh" (no key found), "reuse" or "rotate"
    d_exit,         \* server process: exit code of the last run
    d_why,          \* server process: what ended the last run
    d_runs,         \* server process: runs started so far
    d_errs,         \* server process: failures reported in this run without ending it
    files,          \* server: what each path of the installation holds
    dCfgExists,     \* server: CFGPATH exists
    dCfgRows,       \* server: rows of table CONFIG, in insertion order
    serverconfig,   \* server: the HashMap filled from CONFIG at startup
    setup_passphrase, \* daemonsetup: the passphrase that will be sealed as PKPASS
    ui_exkey,       \* daemonsetup: the String the "use this key?" answers are read into
    d_gen,          \* server: key pairs generated so far
    clock,          \* seconds passed since generate_certificate began
    not_before,     \* generate_certificate: not_before
    not_after,      \* generate_certificate: not_after
    recovered,      \* server: passphrase and dbpass decrypted at startup
    sealed,         \* the passphrase and database password the last setup encrypted
    running,        \* server: the AtomicBool the accept loop tests
    ipc_conns,      \* client: per local peer, its loopback connection and the worker serving it
    ipc_queue,      \* client: loopback connections waiting in ipclistener's accept queue
    ipcstream,      \* client: the shared slot, "None" or the peer whose stream it holds
    ipcLock,        \* client: holder of the Mutex around ipcstream ("free": none)
    p_pc,           \* port check: position of the server's setup and start ("none": not followed)
    cp_pc,          \* port check: position of the client's setup
    ui_port,        \* port check: the line read at the port prompt, one character per element
    setup_port,     \* daemonsetup: setup_port, stored as PORT
    port            \* clientsetup: port

clientVars == <<cfgExists, cfgRows, clientconfig, c_pc, c_exit, c_why, runs,
                uidAtStart, connFails, sleepSecs, l_pc, streamLock, lockPoisoned,
                buffer, response, processed, sentRegs, s2c, s2cState>>

serverVars == <<svr_pc, svr_conn, backlog, svrLog, svrHandled, svrWrites, clientsDb>>

addrVars == <<a_pc, ip_address, ipv4_address, ipv6_address>>

daemonVars == <<d_pc, d_mode, d_path, d_exit, d_why, d_runs, d_errs, files, dCfgExists,
                dCfgRows, serverconfig, setup_passphrase, ui_exkey, d_gen, clock,
                not_before, not_after, recovered, sealed>>

ipcVars == <<ipc_conns, ipc_queue, ipcstream, ipcLock>>

portVars == <<p_pc, cp_pc, ui_port, setup_port, port>>

vars == <<endpoint, clientVars, serverVars, addrVars, daemonVars, ipcVars, portVars, running>>

(***************************************************************************)
(* Messages.  Option<String> fields that are None carry NoUid.             *)
(***************************************************************************)
NoUid == "<none>"

\* the enrollment key the server holds (SVRKEY of the server's CONFIG)
ServerKey == "K1"
\* what the operator may type at "Enter Luminum server key: "
KeyInputs == {"K1", "K2"}

\* struct ServerMessage / MessageContent / MessageData as the listener reads
\* them: content.action, content.status, content.data (present or not) and
\* content.data.uid.  fmt tells whether the bytes are a MessagePack envelope.
Msg(action, status, hasData, uid) ==
    [fmt |-> "msgpack", action |-> action, status |-> status,
     hasData |-> hasData, uid |-> uid]

\* bytes that are no complete MessagePack ServerMessage
Garbage == [fmt |-> "garbage", action |-> "", status |-> "", hasData |-> FALSE, uid |-> NoUid]

\* no message (the listener holds none)
NoMsg == [fmt |-> "none", action |-> "", status |-> "", hasData |-> FALSE, uid |-> NoUid]

\* the payloads a TLS server may put on the client's connection
ServerFrames ==
    { Garbage,
      Msg("register", "OK", FALSE, NoUid),
      Msg("register", "OK", TRUE, NoUid),
      Msg("register", "OK", TRUE, ""),
      Msg("register", "OK", TRUE, "u1"),
      Msg("register", "OK", TRUE, "u2"),
      Msg("register", "FAIL", TRUE, "u1"),
      Msg("query", "OK", TRUE, "u1") }

\* struct ClientMessage built at lines 268-288 and serialized by to_vec_named
RegisterMessage(cfg) ==
    [fmt |-> "msgpack", product |-> "Luminum Client", uid |-> "NONE",
     action |-> "register", status |-> "noreg", serverkey |-> cfg["SVRKEY"],
     datauid |-> "NONW", osplat |-> "Linux", content |-> FALSE]

(***************************************************************************)
(* The client's configuration store.                                       *)
(***************************************************************************)
\* the values of the rows of CONFIG whose KEY is k, in insertion order
RECURSIVE RowsOf(_, _)
RowsOf(rows, k) ==
    IF rows = <<>> THEN <<>>
    ELSE IF Head(rows)[1] = k THEN <<Head(rows)[2]>> \o RowsOf(Tail(rows), k)
         ELSE RowsOf(Tail(rows), k)

\* clientconfig.insert(key, value) for every row: a later row replaces an earlier one
RECURSIVE LoadConfig(_, _)
LoadConfig(rows, map) ==
    IF rows = <<>> THEN map
    ELSE LoadConfig(Tail(rows),
                    [k \in DOMAIN map \cup {Head(rows)[1]} |->
                        IF k = Head(rows)[1] THEN Head(rows)[2] ELSE map[k]])

EmptyMap == [k \in {} |-> ""]

\* clientconfig.get("UID").is_none()
NeedsRegistration_Always(cfg) == TRUE
NeedsRegistration(cfg) == "UID" \notin DOMAIN cfg

(***************************************************************************)
(* Init: nothing is installed or running.                                  *)
(***************************************************************************)
ClientInit ==
    /\ cfgExists = FALSE
    /\ cfgRows = <<>>
    /\ clientconfig = EmptyMap
    /\ c_pc = "off"
    /\ c_exit = 0
    /\ c_why = "never"
    /\ runs = 0
    /\ uidAtStart = FALSE
    /\ connFails = 0
    /\ sleepSecs = 0
    /\ l_pc = "none"
    /\ streamLock = "free"
    /\ lockPoisoned = FALSE
    /\ buffer = <<>>
    /\ response = NoMsg
    /\ processed = <<>>
    /\ sentRegs = 0
    /\ s2c = <<>>
    /\ s2cState = "open"

\* the local peers that may connect to 127.0.0.1:IPCPORT
LocalPeers == {"cli1", "cli2"}

\* no loopback connection and no worker
NoIpc == [conn |-> "none", avail |-> 0, far |-> "open", w |-> "none", reads |-> 0, got |-> 0]

\* let ipcstream = Arc::new(Mutex::new(None)), and nothing connected yet
IpcIdle ==
    /\ ipc_conns = [p \in LocalPeers |-> NoIpc]
    /\ ipc_queue = <<>>
    /\ ipcstream = "None"
    /\ ipcLock = "free"

\* the end of the process ends the workers and closes the loopback sockets
IpcGone ==
    /\ ipc_conns' = [p \in LocalPeers |-> NoIpc]
    /\ ipc_queue' = <<>>
    /\ ipcstream' = "None"
    /\ ipcLock' = "free"

\* the port checks are not followed
PortIdle ==
    /\ p_pc = "none"
    /\ cp_pc = "none"
    /\ ui_port = <<>>
    /\ setup_port = <<>>
    /\ port = 0

\* what the end of the process leaves: no thread, no stream, no lock
ProcessGone(code, why) ==
    /\ c_pc' = "off"
    /\ c_exit' = code
    /\ c_why' = why
    /\ l_pc' = "none"
    /\ streamLock' = "free"
    /\ lockPoisoned' = FALSE
    /\ buffer' = <<>>
    /\ response' = NoMsg
    /\ processed' = <<>>
    /\ sleepSecs' = 0
    /\ clientconfig' = EmptyMap
    /\ uidAtStart' = FALSE
    /\ connFails' = 0
    /\ sentRegs' = 0
    /\ s2c' = <<>>
    /\ s2cState' = "open"

(***************************************************************************)
(* Client: startup.                                                        *)
(***************************************************************************)
\* --setup: clientsetup() when CFGPATH is missing, exit(1) otherwise
ClientSetup(server_key) ==
    /\ c_pc = "off"
    /\ IF ~cfgExists
       THEN /\ cfgExists' = TRUE
            /\ cfgRows' = <<<<"SHOST", "server">>, <<"SPORT", "10465">>,
                            <<"SVRKEY", server_key>>>>
            /\ c_exit' = 0
            /\ c_why' = "setupdone"
       ELSE /\ c_exit' = 1
            /\ c_why' = "setupexists"
            /\ UNCHANGED <<cfgExists, cfgRows>>
    /\ UNCHANGED <<endpoint, addrVars, daemonVars, ipcVars, portVars, running, clientconfig, c_pc, runs, uidAtStart, connFails, sleepSecs,
                   l_pc, streamLock, lockPoisoned, buffer, response, processed, sentRegs,
                   s2c, s2cState, serverVars>>

\* a service run: load CONFIG, bind the IPC listener, resolve the server
\* address, read the server certificate (envOk: these succeed)
ClientStart(envOk) ==
    /\ c_pc = "off"
    /\ runs < MaxRuns
    /\ runs' = runs + 1
    /\ IF ~cfgExists
       THEN /\ c_exit' = 1
            /\ c_why' = "noconfig"
            /\ UNCHANGED <<clientconfig, c_pc, uidAtStart>>
       ELSE IF envOk
            THEN /\ clientconfig' = LoadConfig(cfgRows, EmptyMap)
                 /\ uidAtStart' = (RowsOf(cfgRows, "UID") # <<>>)
                 /\ c_pc' = "connect"
                 /\ UNCHANGED <<c_exit, c_why>>
            ELSE /\ c_exit' = 1
                 /\ c_why' = "startfail"
                 /\ UNCHANGED <<clientconfig, c_pc, uidAtStart>>
    /\ UNCHANGED <<endpoint, addrVars, daemonVars, ipcVars, portVars, running, cfgExists, cfgRows, connFails, sentRegs, s2c, s2cState,
                   sleepSecs, l_pc, streamLock, lockPoisoned, buffer, response, processed,
                   serverVars>>

(***************************************************************************)
(* Connections at the server.  A connection is known by its peer and, for  *)
(* the Luminum client, by the run that opened it; beh is how a peer other  *)
(* than the client behaves and frame is what the peer has written.         *)
(***************************************************************************)
NoFrame == [fmt |-> "none", product |-> "", uid |-> "", action |-> "", status |-> "",
            serverkey |-> "", datauid |-> "", osplat |-> "", content |-> FALSE]

NoConn == [peer |-> "none", id |-> 0, run |-> 0, beh |-> "none", frame |-> NoFrame]

ClientConn(run) == [peer |-> "client", id |-> 0, run |-> run, beh |-> "client", frame |-> NoFrame]

PeerConn(p, beh, f) == [peer |-> "peer", id |-> p, run |-> 0, beh |-> beh, frame |-> f]

\* the connection of the client's current run is conn
IsLive(conn) == conn.peer = "client" /\ conn.run = runs /\ c_pc # "off"

\* the client's write reaches its connection, wherever that is
Deliver(conn, f) == IF IsLive(conn) THEN [conn EXCEPT !.frame = f] ELSE conn

(***************************************************************************)
(* Client: the connect loop (lines 175-187) and the TLS handshake          *)
(* (lines 197-205).                                                        *)
(***************************************************************************)
\* TcpStream::connect succeeds: break sconn
ClientConnectOk ==
    /\ c_pc = "connect"
    /\ endpoint = "luminum" => svr_pc # "exited"
    /\ c_pc' = "tls"
    /\ IF endpoint = "luminum"
       THEN backlog' = Append(backlog, ClientConn(runs))
       ELSE UNCHANGED backlog
    /\ UNCHANGED <<endpoint, addrVars, daemonVars, ipcVars, portVars, running, cfgExists, cfgRows, clientconfig, c_exit, c_why, runs,
                   uidAtStart, connFails, sleepSecs, l_pc, streamLock, lockPoisoned,
                   buffer, response, processed, sentRegs, s2c, s2cState,
                   svr_pc, svr_conn, svrLog, svrHandled, svrWrites, clientsDb>>

\* the mutant: a failed connect ends the process instead of sleeping
ClientConnectFail_GiveUp ==
    /\ c_pc = "connect"
    /\ connFails < MaxConnFails
    /\ ProcessGone(1, "connfail")
    /\ UNCHANGED <<endpoint, addrVars, daemonVars, ipcVars, portVars, running, cfgExists, cfgRows, runs, serverVars>>

\* TcpStream::connect fails: report, thread::sleep(30 s), loop
ClientConnectFail ==
    /\ c_pc = "connect"
    /\ connFails < MaxConnFails
    /\ connFails' = connFails + 1
    /\ c_pc' = "sleep"
    /\ sleepSecs' = RetrySecs
    /\ UNCHANGED <<endpoint, addrVars, daemonVars, ipcVars, portVars, running, cfgExists, cfgRows, clientconfig, c_exit, c_why, runs,
                   uidAtStart, l_pc, streamLock, lockPoisoned, buffer, response, processed,
                   sentRegs, s2c, s2cState, serverVars>>

\* the sleep is over: the loop connects again
ClientWake ==
    /\ c_pc = "sleep"
    /\ c_pc' = "connect"
    /\ sleepSecs' = 0
    /\ UNCHANGED <<endpoint, addrVars, daemonVars, ipcVars, portVars, running, cfgExists, cfgRows, clientconfig, c_exit, c_why, runs,
                   uidAtStart, connFails, l_pc, streamLock, lockPoisoned, buffer,
                   response, processed, sentRegs, s2c, s2cState, serverVars>>

\* connector.connect returned Ok: server_stream is wrapped in Arc<Mutex<..>>,
\* the listener thread is spawned and main goes on to the registration check
TlsEstablished ==
    /\ c_pc' = "regcheck"
    /\ l_pc' = "lock"
    /\ streamLock' = "free"
    /\ lockPoisoned' = FALSE
    /\ buffer' = <<>>
    /\ response' = NoMsg
    /\ processed' = <<>>
    /\ s2c' = <<>>
    /\ s2cState' = "open"
    /\ UNCHANGED <<cfgExists, cfgRows, clientconfig, c_exit, c_why, runs, uidAtStart,
                   connFails, sleepSecs, sentRegs>>

\* connector.connect returned Err: report, process::exit(1)
TlsFailed ==
    /\ ProcessGone(1, "tlsfail")
    /\ UNCHANGED <<cfgExists, cfgRows, runs>>

\* the handshake with a TLS server other than the Luminum server
ClientTlsOther(ok) ==
    /\ c_pc = "tls"
    /\ endpoint = "other"
    /\ IF ok THEN TlsEstablished ELSE TlsFailed
    /\ UNCHANGED <<endpoint, addrVars, daemonVars, ipcVars, portVars, running, serverVars>>

(***************************************************************************)
(* Client: registration check (lines 264-294) and write_to_server          *)
(* (lines 320-324).                                                        *)
(***************************************************************************)
\* if clientconfig.get("UID").is_none() { ... write_to_server(..) } else { .. }
ClientRegCheck ==
    /\ c_pc = "regcheck"
    /\ c_pc' = IF NeedsRegistration(clientconfig) THEN "wlock" ELSE "ipc"
    /\ UNCHANGED <<endpoint, addrVars, daemonVars, ipcVars, portVars, running, cfgExists, cfgRows, clientconfig, c_exit, c_why, runs,
                   uidAtStart, connFails, sleepSecs, l_pc, streamLock, lockPoisoned,
                   buffer, response, processed, sentRegs, s2c, s2cState, serverVars>>

RECURSIVE DeliverAll(_, _)
DeliverAll(q, f) ==
    IF q = <<>> THEN <<>> ELSE <<Deliver(Head(q), f)>> \o DeliverAll(Tail(q), f)

\* the mutant: the stream is written without taking the Mutex
ClientWrite_NoLock(werr) ==
    /\ c_pc = "wlock"
    /\ werr => s2cState # "open"
    /\ IF lockPoisoned \/ werr
       THEN /\ ProcessGone(101, "panic")
            /\ UNCHANGED <<backlog, svr_conn>>
       ELSE /\ sentRegs' = sentRegs + 1
            /\ c_pc' = "ipc"
            /\ backlog' = DeliverAll(backlog, RegisterMessage(clientconfig))
            /\ svr_conn' = Deliver(svr_conn, RegisterMessage(clientconfig))
            /\ UNCHANGED <<c_exit, c_why, l_pc, streamLock, lockPoisoned, buffer,
                           response, processed, sleepSecs, clientconfig, uidAtStart, connFails,
                           s2c, s2cState>>
    /\ UNCHANGED <<endpoint, addrVars, daemonVars, ipcVars, portVars, running, cfgExists, cfgRows, runs, svr_pc, svrLog, svrHandled,
                   svrWrites, clientsDb>>

\* stream.lock().unwrap(); to_vec_named; stream.write_all(..).expect(..).
\* The guard is taken, used and dropped within the call.  werr: write_all
\* returns Err, which only a connection the far end has closed can give.
ClientWrite(werr) ==
    /\ c_pc = "wlock"
    /\ streamLock = "free"
    /\ werr => s2cState # "open"
    /\ IF lockPoisoned \/ werr
       THEN /\ ProcessGone(101, "panic")
            /\ UNCHANGED <<backlog, svr_conn>>
       ELSE /\ sentRegs' = sentRegs + 1
            /\ c_pc' = "ipc"
            /\ backlog' = DeliverAll(backlog, RegisterMessage(clientconfig))
            /\ svr_conn' = Deliver(svr_conn, RegisterMessage(clientconfig))
            /\ UNCHANGED <<c_exit, c_why, l_pc, streamLock, lockPoisoned, buffer,
                           response, processed, sleepSecs, clientconfig, uidAtStart, connFails,
                           s2c, s2cState>>
    /\ UNCHANGED <<endpoint, addrVars, daemonVars, ipcVars, portVars, running, cfgExists, cfgRows, runs, svr_pc, svrLog, svrHandled,
                   svrWrites, clientsDb>>

(***************************************************************************)
(* Client: the listener thread (lines 219-262).                            *)
(***************************************************************************)
\* server_stream_clone.lock(): Err when poisoned (report, break), else wait
\* for the Mutex and take it
ListenerLock ==
    /\ l_pc = "lock"
    /\ IF lockPoisoned
       THEN /\ l_pc' = "done"
            /\ UNCHANGED streamLock
       ELSE /\ streamLock = "free"
            /\ streamLock' = "listener"
            /\ l_pc' = "read"
    /\ UNCHANGED <<endpoint, addrVars, daemonVars, ipcVars, portVars, running, cfgExists, cfgRows, clientconfig, c_pc, c_exit, c_why,
                   runs, uidAtStart, connFails, sleepSecs, lockPoisoned, buffer,
                   response, processed, sentRegs, s2c, s2cState, serverVars>>

\* from_slice::<ServerMessage>(&buffer): the first envelope of the buffer
Decode(buf) == IF Head(buf).fmt = "msgpack" THEN Head(buf) ELSE Garbage

\* the listener thread panics inside the guard: the thread ends, the Mutex
\* is released and poisoned
ListenerPanic ==
    /\ l_pc' = "panicked"
    /\ streamLock' = "free"
    /\ lockPoisoned' = TRUE
    /\ response' = NoMsg

\* response.content.action == "register" && response.content.status == "OK"
IsRegistered(m) == m.action = "register" /\ m.status = "OK"

\* stream.read_to_end(&mut buffer) returns only at end of stream or on an
\* error; the match on its result and on from_slice, up to the expect()s on
\* data and uid
ListenerRead ==
    /\ l_pc = "read"
    /\ s2cState # "open"
    /\ s2c' = <<>>
    /\ IF s2cState = "err"
       THEN \* Err(err): report, break
            /\ l_pc' = "done"
            /\ streamLock' = "free"
            /\ UNCHANGED <<buffer, response, processed, lockPoisoned>>
       ELSE /\ buffer' = buffer \o s2c
            /\ IF Len(s2c) = 0
               THEN \* Ok(_): the server closed the connection, break
                    /\ l_pc' = "done"
                    /\ streamLock' = "free"
                    /\ UNCHANGED <<response, processed, lockPoisoned>>
               ELSE LET m == Decode(buffer \o s2c) IN
                    IF m = Garbage
                    THEN \* Err(err): unable to deserialize, next iteration
                         /\ l_pc' = "lock"
                         /\ streamLock' = "free"
                         /\ UNCHANGED <<response, processed, lockPoisoned>>
                    ELSE IF IsRegistered(m)
                    THEN IF ~m.hasData \/ m.uid = NoUid
                         THEN /\ ListenerPanic
                              /\ processed' = Append(processed, m)
                         ELSE /\ l_pc' = "persist"
                              /\ response' = m
                              /\ processed' = Append(processed, m)
                              /\ UNCHANGED <<streamLock, lockPoisoned>>
                    ELSE \* Ok(server_message) that is no register/OK: nothing to do
                         /\ l_pc' = "lock"
                         /\ streamLock' = "free"
                         /\ processed' = Append(processed, m)
                         /\ UNCHANGED <<response, lockPoisoned>>
    /\ UNCHANGED <<endpoint, addrVars, daemonVars, ipcVars, portVars, running, cfgExists, cfgRows, clientconfig, c_pc, c_exit, c_why,
                   runs, uidAtStart, connFails, sleepSecs, sentRegs, s2cState,
                   serverVars>>

\* the mutant: the insert is left out and the report follows at once
ListenerPersist_NoInsert ==
    /\ l_pc = "persist"
    /\ l_pc' = "report"
    /\ UNCHANGED <<endpoint, addrVars, daemonVars, ipcVars, portVars, running, cfgExists, cfgRows, clientconfig, c_pc,
                   c_exit, c_why, runs, uidAtStart, connFails, sleepSecs, streamLock,
                   lockPoisoned, buffer, response, processed, sentRegs, s2c, s2cState,
                   serverVars>>

\* Connection::open(CFGPATH); insert into CONFIG (KEY,VALUE) values ("UID", new_uid);
\* close: the row is committed when execute returns
ListenerPersist ==
    /\ l_pc = "persist"
    /\ cfgRows' = Append(cfgRows, <<"UID", response.uid>>)
    /\ l_pc' = "report"
    /\ UNCHANGED <<endpoint, addrVars, daemonVars, ipcVars, portVars, running, cfgExists, clientconfig, c_pc, c_exit, c_why, runs,
                   uidAtStart, connFails, sleepSecs, streamLock, lockPoisoned, buffer,
                   response, processed, sentRegs, s2c, s2cState, serverVars>>

\* dbout "Registration successful. (UID: ..)"; the guard is dropped at the
\* end of the iteration
ListenerReport ==
    /\ l_pc = "report"
    /\ response' = NoMsg
    /\ streamLock' = "free"
    /\ l_pc' = "lock"
    /\ UNCHANGED <<endpoint, addrVars, daemonVars, ipcVars, portVars, running, cfgExists, cfgRows, clientconfig, c_pc,
                   c_exit, c_why, runs, uidAtStart, connFails, sleepSecs, lockPoisoned,
                   buffer, processed, sentRegs, s2c, s2cState, serverVars>>

(***************************************************************************)
(* Client: the break handler (lines 104-112).                              *)
(***************************************************************************)
\* ctrlc handler: running.store(false); process::exit(1)
ClientBreak ==
    /\ c_pc # "off"
    /\ ProcessGone(1, "break")
    /\ IpcGone
    /\ UNCHANGED <<endpoint, addrVars, daemonVars, portVars, running, cfgExists, cfgRows, runs,
                   serverVars>>

(***************************************************************************)
(* Client: the local control plane (lines 296-315).  The main thread       *)
(* accepts loopback connections; each gets a worker thread that reads once *)
(* and then stores its stream in ipcstream.                                *)
(***************************************************************************)
\* let mut buffer = [0; 1024]
BufferSize == 1024

\* the byte counts a local peer may write
SendSizes == {5, 2000}

Min(a, b) == IF a < b THEN a ELSE b

\* a local peer connects to the loopback listener
LocalConnect(p) ==
    /\ c_pc = "ipc"
    /\ ipc_conns[p].conn = "none"
    /\ ipc_conns' = [ipc_conns EXCEPT ![p].conn = "queued"]
    /\ ipc_queue' = Append(ipc_queue, p)
    /\ UNCHANGED <<endpoint, clientVars, serverVars, addrVars, daemonVars, portVars, running,
                   ipcstream, ipcLock>>

\* a local peer writes n bytes on its connection
LocalSend(p, n) ==
    /\ c_pc = "ipc"
    /\ ipc_conns[p].conn \in {"queued", "accepted"}
    /\ ipc_conns[p].w \in {"none", "reading"}
    /\ ipc_conns[p].far = "open"
    /\ ipc_conns[p].avail = 0
    /\ ipc_conns' = [ipc_conns EXCEPT ![p].avail = n]
    /\ UNCHANGED <<endpoint, clientVars, serverVars, addrVars, daemonVars, portVars, running,
                   ipc_queue, ipcstream, ipcLock>>

\* a local peer closes ("eof") or resets ("err") its connection
LocalClose(p, how) ==
    /\ c_pc = "ipc"
    /\ ipc_conns[p].conn \in {"queued", "accepted"}
    /\ ipc_conns[p].w \in {"none", "reading"}
    /\ ipc_conns[p].far = "open"
    /\ ipc_conns' = [ipc_conns EXCEPT ![p].far = how]
    /\ UNCHANGED <<endpoint, clientVars, serverVars, addrVars, daemonVars, portVars, running,
                   ipc_queue, ipcstream, ipcLock>>

\* incoming is Ok(stream): thread::spawn of the worker, next iteration
IpcAccept ==
    /\ c_pc = "ipc"
    /\ ipc_queue # <<>>
    /\ ipc_conns' = [ipc_conns EXCEPT ![Head(ipc_queue)].conn = "accepted",
                                      ![Head(ipc_queue)].w = "reading"]
    /\ ipc_queue' = Tail(ipc_queue)
    /\ UNCHANGED <<endpoint, clientVars, serverVars, addrVars, daemonVars, portVars, running,
                   ipcstream, ipcLock>>

\* the mutant: the read takes all that the peer has written
stream_read_Unbounded(avail) == avail

\* stream.read(&mut buffer): at most the buffer's length
stream_read(avail) == Min(avail, BufferSize)

\* the worker's stream.read(&mut buffer).expect(..): it returns when the
\* peer has written or closed; on Err the worker panics, which drops its
\* stream, before it has touched ipcstream
IpcRead(p, ok) ==
    /\ c_pc = "ipc"
    /\ ipc_conns[p].w = "reading"
    /\ IF ok
       THEN /\ ipc_conns[p].avail > 0 \/ ipc_conns[p].far = "eof"
            /\ ipc_conns' = [ipc_conns EXCEPT
                                ![p].got = stream_read(ipc_conns[p].avail),
                                ![p].avail = ipc_conns[p].avail - stream_read(ipc_conns[p].avail),
                                ![p].reads = ipc_conns[p].reads + 1,
                                ![p].w = "locking"]
       ELSE /\ ipc_conns[p].far = "err"
            /\ ipc_conns' = [ipc_conns EXCEPT ![p].reads = ipc_conns[p].reads + 1,
                                              ![p].avail = 0,
                                              ![p].conn = "closed",
                                              ![p].w = "panicked"]
    /\ UNCHANGED <<endpoint, clientVars, serverVars, addrVars, daemonVars, portVars, running,
                   ipc_queue, ipcstream, ipcLock>>

\* let mut shared_stream = shared_stream.lock().unwrap()
IpcLockSlot(p) ==
    /\ c_pc = "ipc"
    /\ ipc_conns[p].w = "locking"
    /\ ipcLock = "free"
    /\ ipcLock' = p
    /\ ipc_conns' = [ipc_conns EXCEPT ![p].w = "storing"]
    /\ UNCHANGED <<endpoint, clientVars, serverVars, addrVars, daemonVars, portVars, running,
                   ipc_queue, ipcstream>>

\* *shared_stream = Some(stream), which drops the stream stored before, and
\* the end of the closure, which drops the guard
IpcStore(p) ==
    /\ c_pc = "ipc"
    /\ ipc_conns[p].w = "storing"
    /\ ipcstream' = p
    /\ ipc_conns' = [q \in LocalPeers |->
                        IF q = p THEN [ipc_conns[q] EXCEPT !.w = "done"]
                        ELSE IF q = ipcstream THEN [ipc_conns[q] EXCEPT !.conn = "closed"]
                        ELSE ipc_conns[q]]
    /\ ipcLock' = "free"
    /\ UNCHANGED <<endpoint, clientVars, serverVars, addrVars, daemonVars, portVars, running,
                   ipc_queue>>

(***************************************************************************)
(* A TLS server other than the Luminum server at the far end of the        *)
(* client's connection: it may write any payload and close at any time.    *)
(***************************************************************************)
Established == c_pc \in {"regcheck", "wlock", "ipc"}

OtherSend(f) ==
    /\ endpoint = "other"
    /\ Established
    /\ s2cState = "open"
    /\ Len(s2c) < MaxFrames
    /\ s2c' = Append(s2c, f)
    /\ UNCHANGED <<endpoint, addrVars, daemonVars, ipcVars, portVars, running, cfgExists, cfgRows, clientconfig, c_pc, c_exit, c_why,
                   runs, uidAtStart, connFails, sleepSecs, l_pc, streamLock,
                   lockPoisoned, buffer, response, processed, sentRegs, s2cState, serverVars>>

\* how: "eof" (the stream ends) or "err" (the transport fails)
OtherClose(how) ==
    /\ endpoint = "other"
    /\ Established
    /\ s2cState = "open"
    /\ s2cState' = how
    /\ UNCHANGED <<endpoint, addrVars, daemonVars, ipcVars, portVars, running, cfgExists, cfgRows, clientconfig, c_pc, c_exit, c_why,
                   runs, uidAtStart, connFails, sleepSecs, l_pc, streamLock,
                   lockPoisoned, buffer, response, processed, sentRegs, s2c, serverVars>>

\* the far end writes one frame after another on the same connection
OtherBurst(f) ==
    /\ endpoint = "other"
    /\ Established
    /\ s2cState = "open"
    /\ Len(s2c) < MaxBurst
    /\ s2c' = Append(s2c, f)
    /\ UNCHANGED <<endpoint, addrVars, daemonVars, ipcVars, portVars, running, cfgExists, cfgRows, clientconfig, c_pc, c_exit, c_why,
                   runs, uidAtStart, connFails, sleepSecs, l_pc, streamLock,
                   lockPoisoned, buffer, response, processed, sentRegs, s2cState,
                   serverVars>>

(***************************************************************************)
(* Server: the accept loop of main (lines 308-325), handle_client          *)
(* (lines 332-344) and handle_json (lines 346-361).  The loop runs on the  *)
(* main thread: accept, TLS accept and handle_client follow one another.   *)
(***************************************************************************)
\* dbout / eprintln of one report
Report(what) == what

\* how a peer other than the client may behave on one connection
PeerBehaviours == {"hs_fail", "hs_stall", "silent", "send", "eof", "reset"}

\* {"product": .., "version": .., "module": .., "data": {"content": ..}}
JsonFrame(product, content) ==
    [fmt |-> "json", product |-> product, uid |-> "", action |-> "", status |-> "",
     serverkey |-> "", datauid |-> "", osplat |-> "", content |-> content]

GarbageFrame == [NoFrame EXCEPT !.fmt = "garbage"]

\* what a peer other than the client may write
PeerFrames == { GarbageFrame,
                JsonFrame("Luminum Client", TRUE),
                JsonFrame("Luminum Client", FALSE),
                JsonFrame("Other", TRUE) }

OtherPeers == 1 .. MaxPeers

RECURSIVE HasPeer(_, _)
HasPeer(q, p) ==
    IF q = <<>> THEN FALSE
    ELSE (Head(q).peer = "peer" /\ Head(q).id = p) \/ HasPeer(Tail(q), p)

ServerInit ==
    /\ svr_pc = "accept"
    /\ svr_conn = NoConn
    /\ backlog = <<>>
    /\ svrLog = "none"
    /\ svrHandled = <<>>
    /\ svrWrites = <<>>
    /\ clientsDb = {}
    /\ running = TRUE

\* while running.load(Ordering::SeqCst): the next iteration, or the end of
\* the loop and of main
LoopHead == IF running THEN "accept" ELSE "stopped"

\* a peer other than the client connects to the listener
PeerConnect(p) ==
    /\ svr_pc # "exited"
    /\ ~HasPeer(backlog, p)
    /\ ~(svr_conn.peer = "peer" /\ svr_conn.id = p)
    /\ backlog' = Append(backlog, PeerConn(p, "unknown", NoFrame))
    /\ UNCHANGED <<endpoint, addrVars, daemonVars, ipcVars, portVars, running, clientVars, svr_pc, svr_conn, svrLog, svrHandled,
                   svrWrites, clientsDb>>

\* listener.accept() returns Ok((stream, peer_addr)).  How a peer other than
\* the client behaves on the connection (beh, f) shows from here on only,
\* so it is drawn here.
SvrAccept(beh, f) ==
    /\ svr_pc = "accept"
    /\ backlog # <<>>
    /\ (beh = "send") = (f # NoFrame)
    /\ IF Head(backlog).peer = "client"
       THEN /\ beh = "silent"
            /\ svr_conn' = Head(backlog)
       ELSE svr_conn' = PeerConn(Head(backlog).id, beh, f)
    /\ backlog' = Tail(backlog)
    /\ svr_pc' = "handshake"
    /\ svrLog' = "none"
    /\ UNCHANGED <<endpoint, addrVars, daemonVars, ipcVars, portVars, running, clientVars, svrHandled, svrWrites, clientsDb>>

\* listener.accept() returns Err: report, next iteration
SvrAcceptErr ==
    /\ svr_pc = "accept"
    /\ svrLog' = Report("accepterr")
    /\ UNCHANGED <<endpoint, addrVars, daemonVars, ipcVars, portVars, running, clientVars, svr_pc, svr_conn, backlog, svrHandled,
                   svrWrites, clientsDb>>

\* the mutant: a failed TLS accept ends the process, as it does in the client
TlsAcceptFailed_Exit ==
    /\ svrLog' = Report("tlsfail")
    /\ svr_pc' = "exited"
    /\ svr_conn' = NoConn

\* acceptor.accept(stream) returns Err: report, continue
TlsAcceptFailed ==
    /\ svrLog' = Report("tlsfail")
    /\ svr_pc' = LoopHead
    /\ svr_conn' = NoConn

\* acceptor.accept(stream) on a connection whose far end is not the running
\* client: it fails, succeeds, or (hs_stall) does not return
SvrTlsAccept ==
    /\ svr_pc = "handshake"
    /\ ~IsLive(svr_conn)
    /\ svr_conn.beh # "hs_stall"
    /\ IF svr_conn.peer = "client" \/ svr_conn.beh = "hs_fail"
       THEN TlsAcceptFailed
       ELSE /\ svr_pc' = "read"
            /\ UNCHANGED <<svr_conn, svrLog>>
    /\ UNCHANGED <<endpoint, addrVars, daemonVars, ipcVars, portVars, running, clientVars, backlog, svrHandled, svrWrites, clientsDb>>

\* the handshake between the running client (connector.connect) and the
\* server (acceptor.accept): both return Ok or both return Err
Handshake(ok) ==
    /\ svr_pc = "handshake"
    /\ IsLive(svr_conn)
    /\ c_pc = "tls"
    /\ IF ok
       THEN /\ TlsEstablished
            /\ svr_pc' = "read"
            /\ UNCHANGED <<svr_conn, svrLog>>
       ELSE /\ TlsFailed
            /\ TlsAcceptFailed
    /\ UNCHANGED <<endpoint, addrVars, daemonVars, ipcVars, portVars, running, backlog, svrHandled, svrWrites, clientsDb>>

\* what stream.read(&mut buffer) of handle_client returns on conn:
\* a frame, "eof" (Ok(0)), "err" (Err) or "block" (no return yet)
ReadResults(conn) ==
    IF conn.frame # NoFrame THEN {"data"}
    ELSE IF conn.peer = "client"
         THEN IF IsLive(conn) THEN {"block"} ELSE {"eof", "err"}
         ELSE IF conn.beh = "eof" THEN {"eof"}
              ELSE IF conn.beh = "reset" THEN {"err"}
              ELSE {"block"}

\* serde_json::from_str::<Value>(data): Ok only for JSON text
ParsesAsJson(f) == f.fmt = "json"

\* handle_json: the report it writes ("none": it writes nothing)
HandleJson(got, f) ==
    IF got = "data" /\ ParsesAsJson(f)
    THEN IF f.product = "Luminum Client" /\ f.content THEN "content" ELSE "none"
    ELSE "malformed"

\* handle_client: one read, handle_json on what was read, return; the
\* stream is dropped on return, which closes the connection.  closed: how
\* the far end sees the close.
SvrHandleClient(got, closed) ==
    /\ svr_pc = "read"
    /\ got \in ReadResults(svr_conn) \ {"block"}
    /\ LET what == IF got = "err" THEN "readerr" ELSE HandleJson(got, svr_conn.frame) IN
       svrLog' = IF what = "none" THEN svrLog ELSE Report(what)
    /\ svrHandled' = IF got = "data" /\ svr_conn.frame.action = "register"
                     THEN Append(svrHandled, svr_conn.frame)
                     ELSE svrHandled
    /\ svr_pc' = LoopHead
    /\ svr_conn' = NoConn
    /\ IF IsLive(svr_conn)
       THEN s2cState' = closed
       ELSE /\ closed = "eof"
            /\ UNCHANGED s2cState
    /\ UNCHANGED <<endpoint, addrVars, daemonVars, ipcVars, portVars, running, cfgExists, cfgRows, clientconfig, c_pc, c_exit, c_why,
                   runs, uidAtStart, connFails, sleepSecs, l_pc, streamLock,
                   lockPoisoned, buffer, response, processed, sentRegs, s2c,
                   backlog, svrWrites, clientsDb>>

(***************************************************************************)
(* Server: the break handler (lines 293-302).                              *)
(***************************************************************************)
\* the mutant: the handler clears the flag and returns
SvrBreak_FlagOnly(closed) ==
    /\ endpoint = "luminum"
    /\ svr_pc \notin {"exited", "stopped"}
    /\ running
    /\ running' = FALSE
    /\ closed = "eof"
    /\ svrLog' = Report("break")
    /\ UNCHANGED <<endpoint, addrVars, daemonVars, ipcVars, portVars, clientVars, svr_pc,
                   svr_conn, backlog, svrHandled, svrWrites, clientsDb>>

\* ctrlc handler: r.store(false); dbout "BREAK"; process::exit(1).  The
\* process ends wherever the main thread is; its sockets are closed, which
\* the client sees on an established channel (closed: how).
SvrBreak(closed) ==
    /\ endpoint = "luminum"
    /\ svr_pc \notin {"exited", "stopped"}
    /\ running
    /\ running' = FALSE
    /\ svrLog' = Report("break")
    /\ svr_pc' = "exited"
    /\ svr_conn' = NoConn
    /\ backlog' = <<>>
    /\ IF IsLive(svr_conn) /\ svr_pc = "read"
       THEN s2cState' = closed
       ELSE /\ closed = "eof"
            /\ UNCHANGED s2cState
    /\ UNCHANGED <<endpoint, addrVars, daemonVars, ipcVars, portVars, cfgExists, cfgRows,
                   clientconfig, c_pc, c_exit, c_why, runs, uidAtStart, connFails, sleepSecs,
                   l_pc, streamLock, lockPoisoned, buffer, response, processed, sentRegs,
                   s2c, svrHandled, svrWrites, clientsDb>>

\* connector.connect of the client returns Err: the server has gone before
\* the handshake was done
HandshakeAborted ==
    /\ endpoint = "luminum"
    /\ svr_pc = "exited"
    /\ c_pc = "tls"
    /\ TlsFailed
    /\ UNCHANGED <<endpoint, addrVars, daemonVars, ipcVars, portVars, running, serverVars>>

(***************************************************************************)
(* Client: the classification of the local address (lines 209-216) that    *)
(* fills the ipv4 and ipv6 fields of the register message (lines 268-276). *)
(* A string is a sequence of one-character strings.                        *)
(***************************************************************************)
\* \d within the characters an address is drawn from
Digits == {"0", "1", "2", "3", "4", "5", "6", "7", "8", "9"}

\* [0-9a-fA-F]
HexDigits == Digits \cup {"a", "b", "c", "d", "e", "f", "A", "B", "C", "D", "E", "F"}

\* is_match of ^(C{1,m}S){reps}C{1,m}$ on s, C a character class and S a
\* literal character; the mutant drops the anchor $
RECURSIVE MatchGroups_Unanchored(_, _, _, _, _)
MatchGroups_Unanchored(s, class, sep, reps, m) ==
    \E k \in 1 .. m :
        /\ k <= Len(s)
        /\ \A i \in 1 .. k : s[i] \in class
        /\ IF reps = 0 THEN TRUE
           ELSE /\ k < Len(s)
                /\ s[k + 1] = sep
                /\ MatchGroups_Unanchored(SubSeq(s, k + 2, Len(s)), class, sep, reps - 1, m)

RECURSIVE MatchGroups(_, _, _, _, _)
MatchGroups(s, class, sep, reps, m) ==
    \E k \in 1 .. m :
        /\ k <= Len(s)
        /\ \A i \in 1 .. k : s[i] \in class
        /\ IF reps = 0 THEN k = Len(s)
           ELSE /\ k < Len(s)
                /\ s[k + 1] = sep
                /\ MatchGroups(SubSeq(s, k + 2, Len(s)), class, sep, reps - 1, m)

\* Regex::new(r"^(\d{1,3}\.){3}\d{1,3}$").is_match(s)
ipv4_regex(s) == MatchGroups(s, Digits, ".", 3, 3)

\* Regex::new(r"^([0-9a-fA-F]{1,4}:){7}[0-9a-fA-F]{1,4}$").is_match(s)
ipv6_regex(s) == MatchGroups(s, HexDigits, ":", 7, 4)

\* the groups an address is put together from
OneDigit == <<"1">>
ThreeDigits == <<"2", "5", "5">>
TwoHex == <<"f", "e">>
FourHex == <<"8", "0", "A", "b">>
BaseGroups == {OneDigit, ThreeDigits, TwoHex, FourHex}
OddGroups ==
    BaseGroups \cup
    { <<>>, <<"g">>, <<"-">>, <<"1", "2", "3", "4">>, <<"1", "2", "3", "4", "5">>,
      <<"1", ".", "1">>, <<"a", ":", "a">>, <<"1", " ">> }

\* the groups joined by sep
RECURSIVE Join(_, _)
Join(groups, sep) ==
    IF groups = <<>> THEN <<>>
    ELSE IF Len(groups) = 1 THEN Head(groups)
         ELSE Head(groups) \o <<sep>> \o Join(Tail(groups), sep)

\* addresses of 1 .. MaxGroups groups, all alike but one
AddressShapes ==
    { Join([i \in 1 .. n |-> IF i = pos THEN odd ELSE base], sep) :
        n \in 1 .. MaxGroups, pos \in 1 .. MaxGroups, sep \in {".", ":"},
        base \in BaseGroups, odd \in OddGroups }

\* "192.168.1.1", "fe80:0:0:0:0:0:0:1", "not-an-address", "::1", "fe80::1"
AddressExamples ==
    { <<"1", "9", "2", ".", "1", "6", "8", ".", "1", ".", "1">>,
      <<"f", "e", "8", "0", ":", "0", ":", "0", ":", "0", ":", "0", ":", "0", ":", "0", ":", "1">>,
      <<"n", "o", "t", "-", "a", "n", "-", "a", "d", "d", "r", "e", "s", "s">>,
      <<":", ":", "1">>,
      <<"f", "e", "8", "0", ":", ":", "1">> }

AddressInputs == AddressShapes \cup AddressExamples

\* the classification is not followed
AddrIdle ==
    /\ a_pc = "none"
    /\ ip_address = <<>>
    /\ ipv4_address = <<>>
    /\ ipv6_address = <<>>

\* let mut ipv4_address = String::new(); let mut ipv6_address = String::new();
AddrInit ==
    /\ a_pc = "start"
    /\ ip_address \in AddressInputs
    /\ ipv4_address = <<>>
    /\ ipv6_address = <<>>

\* if ipv4_regex.is_match(&ip_address) { ipv4_address = ip_address.clone(); }
\* if ipv6_regex.is_match(&ip_address) { ipv6_address = ip_address.clone(); }
ClassifyAddress ==
    /\ a_pc = "start"
    /\ a_pc' = "done"
    /\ ipv4_address' = IF ipv4_regex(ip_address) THEN ip_address ELSE ipv4_address
    /\ ipv6_address' = IF ipv6_regex(ip_address) THEN ip_address ELSE ipv6_address
    /\ UNCHANGED <<endpoint, ip_address, clientVars, serverVars, daemonVars, ipcVars,
                   portVars, running>>

(***************************************************************************)
(* Server: the files of the installation (DKPATH, DPPATH, DCPATH, DIPATH   *)
(* and their .old backups) and what they hold.  Text is a sequence of      *)
(* one-character strings.                                                  *)
(***************************************************************************)
DKPATH == "luminum.key"
DPPATH == "luminum.pub"
DCPATH == "luminum.crt"
DIPATH == "luminum.pfx"

\* the artifacts in the order daemonsetup handles them
Artifacts == <<DKPATH, DPPATH, DCPATH, DIPATH>>

\* format!("{DKPATH}.old") and the like
Old(path) ==
    CASE path = DKPATH -> "luminum.key.old"
      [] path = DPPATH -> "luminum.pub.old"
      [] path = DCPATH -> "luminum.crt.old"
      [] path = DIPATH -> "luminum.pfx.old"

Paths == { Artifacts[i] : i \in 1 .. 4 } \cup { Old(Artifacts[i]) : i \in 1 .. 4 }

\* what a path holds: kind of content, the key pair it belongs to (gen), the
\* passphrase it is protected with, and the validity of a certificate
NoFile == [kind |-> "none", gen |-> 0, pass |-> <<>>, nb |-> 0, na |-> 0]
EmptyFile == [kind |-> "empty", gen |-> 0, pass |-> <<>>, nb |-> 0, na |-> 0]
EncryptedKey(gen, pass) == [kind |-> "enckey", gen |-> gen, pass |-> pass, nb |-> 0, na |-> 0]
PlainKey(gen) == [kind |-> "plainkey", gen |-> gen, pass |-> <<>>, nb |-> 0, na |-> 0]
PublicKey(gen) == [kind |-> "pubkey", gen |-> gen, pass |-> <<>>, nb |-> 0, na |-> 0]
Certificate(gen, nb, na) == [kind |-> "cert", gen |-> gen, pass |-> <<>>, nb |-> nb, na |-> na]
Bundle(gen, pass) == [kind |-> "bundle", gen |-> gen, pass |-> pass, nb |-> 0, na |-> 0]

\* Asn1Time::days_from_now(days) read at second now: now + days * 60 * 60 * 24
days_from_now(now, days) == now + days * 86400

\* what the operator may type as a passphrase
Passphrases == { <<>>, <<"a">>, <<" ", "b">> }

\* the passphrase of the key pair that is installed before setup runs
InstalledPassphrase == <<"a">>

\* what the operator may answer at "Do you want to use this key? [Y/n]: "
Answers == { <<>>, <<"y">>, <<"Y">>, <<"n">> }

Whitespace == {" ", "\n", "\t"}

RECURSIVE TrimStart(_)
TrimStart(s) ==
    IF s # <<>> /\ Head(s) \in Whitespace THEN TrimStart(Tail(s)) ELSE s

RECURSIVE TrimEnd(_)
TrimEnd(s) ==
    IF s # <<>> /\ s[Len(s)] \in Whitespace THEN TrimEnd(SubSeq(s, 1, Len(s) - 1)) ELSE s

\* str::trim
Trim(s) == TrimEnd(TrimStart(s))

\* the mutant: a lower-case y is not a yes
IsYes_UpperOnly(t) == t = <<"Y">> \/ t = <<>>

\* ui_exkey == "Y" || ui_exkey == "y" || ui_exkey.is_empty()
IsYes(t) == t = <<"Y">> \/ t = <<"y">> \/ t = <<>>

(***************************************************************************)
(* Server: the vault (magic_crypt, a cipher keyed by the ServerKey) and    *)
(* the configuration store.                                                *)
(***************************************************************************)
\* random_str::get_string(128, ..): the ServerKeys that may be drawn
ServerKeys == { <<"S", "1">>, <<"S", "2">> }

\* random_str::get_string(16, ..): the database password that is drawn
DbPasswords == { <<"d", "b">> }

\* a value of the CONFIG table kept in the clear
Clear(text) == [enc |-> "clear", key |-> <<>>, text |-> text]

\* new_magic_crypt!(key, 256).encrypt_str_to_base64(text); the mutant loses
\* the first character
encrypt_str_to_base64_Lossy(key, text) ==
    [enc |-> "aes256", key |-> key, text |-> IF text = <<>> THEN <<"x">> ELSE Tail(text)]
encrypt_str_to_base64(key, text) == [enc |-> "aes256", key |-> key, text |-> text]

\* the result of a decryption that fails
DecryptError == <<"<", "e", "r", "r", ">">>

\* new_magic_crypt!(key, 256).decrypt_base64_to_string(value): Ok(text) for
\* what was encrypted under the same key, Err otherwise
decrypt_base64_to_string(key, value) ==
    IF value.enc = "aes256" /\ value.key = key THEN value.text ELSE DecryptError

\* the address and port the operator has entered and daemonsetup accepted
SetupAddress == <<"1", "0", ".", "0", ".", "0", ".", "1">>
SetupPort == <<"1", "0", "4", "6", "5">>

\* the rows daemonsetup inserts, in the order of lines 542-546
ConfigEntries(new_server_key, pkpass, dbpass) ==
    << <<"SVRKEY", Clear(new_server_key)>>,
       <<"IPADDR", Clear(SetupAddress)>>,
       <<"PORT", Clear(SetupPort)>>,
       <<"PKPASS", encrypt_str_to_base64(new_server_key, pkpass)>>,
       <<"DBPASS", encrypt_str_to_base64(new_server_key, dbpass)>> >>

NoSecrets == [pkpass |-> <<>>, dbpass |-> <<>>]

(***************************************************************************)
(* Server: one process at a time, run with or without --setup.             *)
(***************************************************************************)
\* no server process is followed
DaemonIdle ==
    /\ d_pc = "off"
    /\ d_mode = "none"
    /\ d_path = "none"
    /\ d_exit = 0
    /\ d_why = "never"
    /\ d_runs = 0
    /\ d_errs = {}
    /\ files = [p \in Paths |-> NoFile]
    /\ dCfgExists = FALSE
    /\ dCfgRows = <<>>
    /\ serverconfig = EmptyMap
    /\ setup_passphrase = <<>>
    /\ ui_exkey = <<>>
    /\ d_gen = 0
    /\ clock = 0
    /\ not_before = 0
    /\ not_after = 0
    /\ recovered = NoSecrets
    /\ sealed = NoSecrets

\* the installation before the first run: any of the four artifacts may be
\* there, left by an earlier key generation, with or without their backups
DaemonInit ==
    /\ d_pc = "off"
    /\ d_mode = "none"
    /\ d_path = "none"
    /\ d_exit = 0
    /\ d_why = "never"
    /\ d_runs = 0
    /\ d_errs = {}
    /\ \E present \in SUBSET {DKPATH, DPPATH, DCPATH, DIPATH}, backups \in BOOLEAN :
          files = [p \in Paths |->
                     LET content(a) ==
                            CASE a = DKPATH -> EncryptedKey(0, InstalledPassphrase)
                              [] a = DPPATH -> PublicKey(0)
                              [] a = DCPATH -> Certificate(0, 0, days_from_now(0, 365))
                              [] a = DIPATH -> Bundle(0, InstalledPassphrase)
                     IN  IF p \in present THEN content(p)
                         ELSE IF backups /\ \E i \in 1 .. 4 : p = Old(Artifacts[i])
                              THEN content(Artifacts[CHOOSE i \in 1 .. 4 : p = Old(Artifacts[i])])
                              ELSE NoFile]
    /\ dCfgExists = FALSE
    /\ dCfgRows = <<>>
    /\ serverconfig = EmptyMap
    /\ setup_passphrase = <<>>
    /\ ui_exkey = <<>>
    /\ d_gen = 0
    /\ clock = 0
    /\ not_before = 0
    /\ not_after = 0
    /\ recovered = NoSecrets
    /\ sealed = NoSecrets

\* what the end of the process leaves: the files and the configuration store
DaemonGone(code, why) ==
    /\ d_pc' = "off"
    /\ d_exit' = code
    /\ d_why' = why
    /\ serverconfig' = EmptyMap
    /\ setup_passphrase' = <<>>
    /\ ui_exkey' = <<>>
    /\ clock' = 0
    /\ not_before' = 0
    /\ not_after' = 0
    /\ recovered' = NoSecrets

\* main up to line 144: the install paths, then --setup: daemonsetup() when
\* CFGPATH is missing, exit(1) otherwise; without --setup the configuration
\* is imported
DaemonRun(setup, installed) ==
    /\ d_pc = "off"
    /\ d_runs < MaxDaemonRuns
    /\ d_runs' = d_runs + 1
    /\ d_mode' = IF setup THEN "setup" ELSE "service"
    /\ d_path' = "none"
    /\ d_errs' = {}
    /\ IF ~installed
       THEN /\ d_exit' = 1
            /\ d_why' = "notinstalled"
            /\ UNCHANGED d_pc
       ELSE IF setup
            THEN IF ~dCfgExists
                 THEN /\ d_pc' = "prompts"
                      /\ UNCHANGED <<d_exit, d_why>>
                 ELSE /\ d_exit' = 1
                      /\ d_why' = "cfgexists"
                      /\ UNCHANGED d_pc
            ELSE /\ d_pc' = "import"
                 /\ UNCHANGED <<d_exit, d_why>>
    /\ UNCHANGED <<endpoint, clientVars, serverVars, addrVars, ipcVars, portVars, running, files, dCfgExists,
                   dCfgRows, serverconfig, setup_passphrase, ui_exkey, d_gen, clock,
                   not_before, not_after, recovered, sealed>>

(***************************************************************************)
(* Server: daemonsetup (lines 378-556).                                    *)
(***************************************************************************)
\* the address and port prompts, then if fs::metadata(DKPATH).is_err()
SetupPrompts ==
    /\ d_pc = "prompts"
    /\ IF files[DKPATH] = NoFile
       THEN d_pc' = "freshkey" /\ d_path' = "fresh"
       ELSE d_pc' = "askuse" /\ d_path' = "reuse"
    /\ UNCHANGED <<endpoint, clientVars, serverVars, addrVars, ipcVars, portVars, running, d_mode, d_exit, d_why,
                   d_runs, d_errs, files, dCfgExists, dCfgRows, serverconfig,
                   setup_passphrase, ui_exkey, d_gen, clock, not_before, not_after,
                   recovered, sealed>>

\* "Do you want to use this key? [Y/n]: ": read_line appends the answer to
\* ui_exkey, which is declared outside the loop; the trimmed ui_exkey decides
AskUse(answer) ==
    /\ d_pc = "askuse"
    /\ ui_exkey' = ui_exkey \o answer \o <<"\n">>
    /\ IF IsYes(Trim(ui_exkey'))
       THEN d_pc' = "usepass" /\ UNCHANGED d_path
       ELSE d_pc' = "rm_old" /\ d_path' = "rotate"
    /\ UNCHANGED <<endpoint, clientVars, serverVars, addrVars, ipcVars, portVars, running, d_mode, d_exit, d_why,
                   d_runs, d_errs, files, dCfgExists, dCfgRows, serverconfig,
                   setup_passphrase, d_gen, clock, not_before, not_after, recovered,
                   sealed>>

\* setup_passphrase = ui_passphrase.trim().to_string(); break; break
UsePass(ui_passphrase) ==
    /\ d_pc = "usepass"
    /\ setup_passphrase' = Trim(ui_passphrase)
    /\ d_pc' = "certcheck"
    /\ UNCHANGED <<endpoint, clientVars, serverVars, addrVars, ipcVars, portVars, running, d_mode, d_path, d_exit,
                   d_why, d_runs, d_errs, files, dCfgExists, dCfgRows, serverconfig,
                   ui_exkey, d_gen, clock, not_before, not_after, recovered, sealed>>

\* the backups among the first n artifacts are removed
RemovedUpTo(fs, n) ==
    [p \in Paths |-> IF \E i \in 1 .. n : p = Old(Artifacts[i]) THEN NoFile ELSE fs[p]]

\* if file_exists(&oldkey) { fs::remove_file(&oldkey).expect(..) } and so on
\* for the four backups; failAt: the one whose removal fails (0: none)
RemoveOld(failAt) ==
    /\ d_pc = "rm_old"
    /\ IF failAt = 0
       THEN /\ files' = RemovedUpTo(files, 4)
            /\ d_pc' = "ren_key"
            /\ UNCHANGED <<d_exit, d_why, serverconfig, setup_passphrase, ui_exkey,
                           clock, not_before, not_after, recovered>>
       ELSE /\ files[Old(Artifacts[failAt])] # NoFile
            /\ files' = RemovedUpTo(files, failAt - 1)
            /\ DaemonGone(101, "panic")
    /\ UNCHANGED <<endpoint, clientVars, serverVars, addrVars, ipcVars, portVars, running, d_mode, d_path, d_runs,
                   d_errs, dCfgExists, dCfgRows, d_gen, sealed>>

\* the position of the rename of each artifact and the position after it
RenamePc == <<"ren_key", "ren_pub", "ren_crt", "ren_pfx">>
AfterRename == <<"ren_pub", "ren_crt", "ren_pfx", "rotkey">>

\* Err(err) of a rename: report, process::exit(1); the mutant goes on to
\* the next statement
RenameFailed_Continue(i) ==
    /\ d_pc' = AfterRename[i]
    /\ UNCHANGED <<d_exit, d_why, serverconfig, setup_passphrase, ui_exkey, clock,
                   not_before, not_after, recovered>>
RenameFailed(i) == DaemonGone(1, "renamefail")

\* match fs::rename(DKPATH, &oldkey) and so on for the four artifacts; a
\* path that does not exist cannot be renamed
SetupRename(i, ok) ==
    /\ d_pc = RenamePc[i]
    /\ ok => files[Artifacts[i]] # NoFile
    /\ IF ok
       THEN /\ files' = [files EXCEPT ![Old(Artifacts[i])] = files[Artifacts[i]],
                                      ![Artifacts[i]] = NoFile]
            /\ d_pc' = AfterRename[i]
            /\ UNCHANGED <<d_exit, d_why, serverconfig, setup_passphrase, ui_exkey,
                           clock, not_before, not_after, recovered>>
       ELSE /\ RenameFailed(i)
            /\ UNCHANGED files
    /\ UNCHANGED <<endpoint, clientVars, serverVars, addrVars, ipcVars, portVars, running, d_mode, d_path, d_runs,
                   d_errs, dCfgExists, dCfgRows, d_gen, sealed>>

\* what generate_private_key writes to DKPATH: encrypted_key, the result of
\* private_key_to_pem_pkcs8_passphrase; the mutant writes prv_key
KeyFileContent_Plain(gen, ui_keypass) == PlainKey(gen)
KeyFileContent(gen, ui_keypass) == EncryptedKey(gen, ui_keypass)

GenerateFailures == {"none", "keycreate", "pubcreate", "keywrite", "pubwrite"}

\* generate_private_key (lines 574-588): File::create of both files, then
\* write_all of both; fail: the call that panics
generate_private_key(fs, gen, ui_keypass, fail) ==
    CASE fail = "keycreate" -> fs
      [] fail = "pubcreate" -> [fs EXCEPT ![DKPATH] = EmptyFile]
      [] fail = "keywrite" -> [fs EXCEPT ![DKPATH] = EmptyFile, ![DPPATH] = EmptyFile]
      [] fail = "pubwrite" -> [fs EXCEPT ![DKPATH] = KeyFileContent(gen, ui_keypass),
                                         ![DPPATH] = EmptyFile]
      [] fail = "none" -> [fs EXCEPT ![DKPATH] = KeyFileContent(gen, ui_keypass),
                                     ![DPPATH] = PublicKey(gen)]

\* the passphrase loop (keypass == vkeypass), generate_private_key(keypass),
\* setup_passphrase = keypass; after a rotation an empty setup_passphrase
\* repeats the "use this key?" loop
GenerateKey(keypass, fail) ==
    /\ d_pc \in {"freshkey", "rotkey"}
    /\ d_gen' = d_gen + 1
    /\ files' = generate_private_key(files, d_gen + 1, keypass, fail)
    /\ IF fail # "none"
       THEN DaemonGone(101, "panic")
       ELSE /\ setup_passphrase' = keypass
            /\ d_pc' = IF d_pc = "rotkey" /\ keypass = <<>> THEN "askuse" ELSE "certcheck"
            /\ UNCHANGED <<d_exit, d_why, serverconfig, ui_exkey, clock, not_before,
                           not_after, recovered>>
    /\ UNCHANGED <<endpoint, clientVars, serverVars, addrVars, ipcVars, portVars, running, d_mode, d_path, d_runs,
                   d_errs, dCfgExists, dCfgRows, sealed>>

\* if fs::metadata(DCPATH).is_err() { generate_certificate(..) }; then
\* generate_certificate up to the prompts: both key files are opened and
\* parsed with the passphrase, each with expect()
CertCheck ==
    /\ d_pc = "certcheck"
    /\ IF files[DCPATH] # NoFile
       THEN /\ d_pc' = "config"
            /\ UNCHANGED <<d_exit, d_why, serverconfig, setup_passphrase, ui_exkey,
                           clock, not_before, not_after, recovered>>
       ELSE IF /\ files[DKPATH].kind \in {"enckey", "plainkey"}
               /\ files[DKPATH].kind = "enckey" => files[DKPATH].pass = setup_passphrase
               /\ files[DPPATH].kind = "pubkey"
            THEN /\ d_pc' = "cert_nb"
                 /\ UNCHANGED <<d_exit, d_why, serverconfig, setup_passphrase, ui_exkey,
                                clock, not_before, not_after, recovered>>
            ELSE DaemonGone(101, "panic")
    /\ UNCHANGED <<endpoint, clientVars, serverVars, addrVars, ipcVars, portVars, running, d_mode, d_path, d_runs,
                   d_errs, files, dCfgExists, dCfgRows, d_gen, sealed>>

\* a second passes while generate_certificate runs
Tick ==
    /\ d_pc \in {"cert_na", "cert_write"}
    /\ clock < MaxTicks
    /\ clock' = clock + 1
    /\ UNCHANGED <<endpoint, clientVars, serverVars, addrVars, ipcVars, portVars, running, d_pc, d_mode, d_path,
                   d_exit, d_why, d_runs, d_errs, files, dCfgExists, dCfgRows,
                   serverconfig, setup_passphrase, ui_exkey, d_gen, not_before,
                   not_after, recovered, sealed>>

\* let not_before = Asn1Time::days_from_now(0)
CertNotBefore ==
    /\ d_pc = "cert_nb"
    /\ not_before' = days_from_now(clock, 0)
    /\ d_pc' = "cert_na"
    /\ UNCHANGED <<endpoint, clientVars, serverVars, addrVars, ipcVars, portVars, running, d_mode, d_path, d_exit,
                   d_why, d_runs, d_errs, files, dCfgExists, dCfgRows, serverconfig,
                   setup_passphrase, ui_exkey, d_gen, clock, not_after, recovered,
                   sealed>>

\* let not_after = Asn1Time::days_from_now(365)
CertNotAfter ==
    /\ d_pc = "cert_na"
    /\ not_after' = days_from_now(clock, 365)
    /\ d_pc' = "cert_write"
    /\ UNCHANGED <<endpoint, clientVars, serverVars, addrVars, ipcVars, portVars, running, d_mode, d_path, d_exit,
                   d_why, d_runs, d_errs, files, dCfgExists, dCfgRows, serverconfig,
                   setup_passphrase, ui_exkey, d_gen, clock, not_before, recovered,
                   sealed>>

\* the rest of generate_certificate: sign, build, std::fs::write(DCPATH),
\* the PKCS#12 structure, std::fs::write(DIPATH); a failed write is
\* reported with eprintln and the function returns Ok(())
CertWrite(crtOk, pfxOk) ==
    /\ d_pc = "cert_write"
    /\ files' = [files EXCEPT
                   ![DCPATH] = IF crtOk
                               THEN Certificate(files[DKPATH].gen, not_before, not_after)
                               ELSE @,
                   ![DIPATH] = IF pfxOk
                               THEN Bundle(files[DKPATH].gen, setup_passphrase)
                               ELSE @]
    /\ d_errs' = d_errs \cup (IF crtOk THEN {} ELSE {"crtwrite"})
                        \cup (IF pfxOk THEN {} ELSE {"pfxwrite"})
    /\ d_pc' = "config"
    /\ UNCHANGED <<endpoint, clientVars, serverVars, addrVars, ipcVars, portVars, running, d_mode, d_path, d_exit,
                   d_why, d_runs, dCfgExists, dCfgRows, serverconfig, setup_passphrase,
                   ui_exkey, d_gen, clock, not_before, not_after, recovered, sealed>>

\* process::exit(0) at the end of daemonsetup; the mutant returns to main
SetupExit_FallThrough ==
    /\ d_pc' = "import"
    /\ UNCHANGED <<d_exit, d_why, serverconfig, setup_passphrase, ui_exkey, clock,
                   not_before, not_after, recovered>>
SetupExit == DaemonGone(0, "setupdone")

\* lines 534-555: the ServerKey and the database password are drawn, both
\* secrets are encrypted, the store is opened, the table created and the
\* five rows inserted, each with expect(); failAt: the call that panics
\* (0: none, 1: Connection::open, 2: create table, 3 .. 7: the inserts)
WriteConfig(new_server_key, dbpass, failAt) ==
    /\ d_pc = "config"
    /\ sealed' = [pkpass |-> setup_passphrase, dbpass |-> dbpass]
    /\ dCfgExists' = (failAt # 1)
    /\ LET entries == ConfigEntries(new_server_key, setup_passphrase, dbpass)
           written == IF failAt = 0 THEN 5 ELSE IF failAt < 3 THEN 0 ELSE failAt - 3
       IN  dCfgRows' = SubSeq(entries, 1, written)
    /\ IF failAt = 0 THEN SetupExit ELSE DaemonGone(101, "panic")
    /\ UNCHANGED <<endpoint, clientVars, serverVars, addrVars, ipcVars, portVars, running, d_mode, d_path, d_runs,
                   d_errs, files, d_gen>>

\* the operator interrupts setup, which has no handler for the signal
SetupInterrupt ==
    /\ d_mode = "setup"
    /\ d_pc # "off"
    /\ DaemonGone(130, "killed")
    /\ UNCHANGED <<endpoint, clientVars, serverVars, addrVars, ipcVars, portVars, running, d_mode, d_path, d_runs,
                   d_errs, files, dCfgExists, dCfgRows, d_gen, sealed>>

(***************************************************************************)
(* Server: the start of the service (lines 146-291).                       *)
(***************************************************************************)
\* the configuration is imported (SVRKEY, IPADDR and PORT with expect()),
\* then the key, certificate and identity files must exist
DaemonImport ==
    /\ d_pc = "import"
    /\ IF ~dCfgExists
       THEN DaemonGone(1, "noconfig")
       ELSE LET cfg == LoadConfig(dCfgRows, EmptyMap) IN
            IF {"SVRKEY", "IPADDR", "PORT"} \subseteq DOMAIN cfg
            THEN IF \E a \in {DKPATH, DCPATH, DIPATH} : files[a] = NoFile
                 THEN DaemonGone(1, "nofile")
                 ELSE /\ serverconfig' = cfg
                      /\ d_pc' = "vault"
                      /\ UNCHANGED <<d_exit, d_why, setup_passphrase, ui_exkey, clock,
                                     not_before, not_after, recovered>>
            ELSE DaemonGone(101, "panic")
    /\ UNCHANGED <<endpoint, clientVars, serverVars, addrVars, ipcVars, portVars, running, d_mode, d_path, d_runs,
                   d_errs, files, dCfgExists, dCfgRows, d_gen, sealed>>

\* the system user and the database (envOk), and both secrets recovered with
\* the cipher keyed by SVRKEY: get(..).unwrap(), decrypt_base64_to_string(..).unwrap()
DaemonVault(envOk) ==
    /\ d_pc = "vault"
    /\ IF ~envOk
       THEN DaemonGone(1, "startfail")
       ELSE IF {"DBPASS", "PKPASS"} \subseteq DOMAIN serverconfig
            THEN LET server_key == serverconfig["SVRKEY"].text
                     dbpass == decrypt_base64_to_string(server_key, serverconfig["DBPASS"])
                     passphrase == decrypt_base64_to_string(server_key, serverconfig["PKPASS"])
                 IN  IF dbpass = DecryptError \/ passphrase = DecryptError
                     THEN DaemonGone(101, "panic")
                     ELSE /\ recovered' = [pkpass |-> passphrase, dbpass |-> dbpass]
                          /\ d_pc' = "identity"
                          /\ UNCHANGED <<d_exit, d_why, serverconfig, setup_passphrase,
                                         ui_exkey, clock, not_before, not_after>>
            ELSE DaemonGone(101, "panic")
    /\ UNCHANGED <<endpoint, clientVars, serverVars, addrVars, ipcVars, portVars, running, d_mode, d_path, d_runs,
                   d_errs, files, dCfgExists, dCfgRows, d_gen, sealed>>

\* Identity::from_pkcs12(&fs::read(identity_file).unwrap(), &passphrase):
\* Err is reported and main returns
DaemonIdentity ==
    /\ d_pc = "identity"
    /\ IF files[DIPATH].kind = "bundle" /\ files[DIPATH].pass = recovered.pkpass
       THEN /\ d_pc' = "serving"
            /\ UNCHANGED <<d_exit, d_why, serverconfig, setup_passphrase, ui_exkey,
                           clock, not_before, not_after, recovered>>
       ELSE DaemonGone(0, "identityfail")
    /\ UNCHANGED <<endpoint, clientVars, serverVars, addrVars, ipcVars, portVars, running, d_mode, d_path, d_runs,
                   d_errs, files, dCfgExists, dCfgRows, d_gen, sealed>>

\* the break handler of the service: process::exit(1)
DaemonBreak ==
    /\ d_pc = "serving"
    /\ DaemonGone(1, "break")
    /\ UNCHANGED <<endpoint, clientVars, serverVars, addrVars, ipcVars, portVars, running, d_mode, d_path, d_runs,
                   d_errs, files, dCfgExists, dCfgRows, d_gen, sealed>>

(***************************************************************************)
(* The port checks: the port prompt of daemonsetup (lines 405-428), the    *)
(* check of main before the bind (lines 176-183) and the port prompt of    *)
(* the client's clientsetup (lines 343-362), all on one line of input.     *)
(***************************************************************************)
\* const DPORT: u16 = 10465, in the server and in the client
DPORT == 10465

\* u16::MAX
U16Max == 65535

\* Err of a parse
ParseError == -1

DigitOrder == <<"0", "1", "2", "3", "4", "5", "6", "7", "8", "9">>

DigitValue(c) == (CHOOSE i \in 1 .. 10 : DigitOrder[i] = c) - 1

\* DPORT.to_string()
RECURSIVE to_string(_)
to_string(n) ==
    IF n < 10 THEN <<DigitOrder[n + 1]>>
    ELSE Append(to_string(n \div 10), DigitOrder[(n % 10) + 1])

\* Regex ^\d+$
contains_only_numbers(input) ==
    Len(input) > 0 /\ \A i \in 1 .. Len(input) : input[i] \in Digits

\* !Regex \d
contains_no_numbers(variable) ==
    \A i \in 1 .. Len(variable) : variable[i] \notin Digits

\* the number a sequence of decimal digits denotes
RECURSIVE DecimalValue(_)
DecimalValue(s) ==
    IF s = <<>> THEN 0
    ELSE DecimalValue(SubSeq(s, 1, Len(s) - 1)) * 10 + DigitValue(s[Len(s)])

\* a parse of decimal digits into an unsigned integer type
ParseBounded(s, max) ==
    IF contains_only_numbers(s) /\ DecimalValue(s) <= max THEN DecimalValue(s) ELSE ParseError

\* str::parse::<u16>: an optional + and decimal digits, within u16
parse_u16(s) ==
    IF s # <<>> /\ Head(s) = "+" THEN ParseBounded(Tail(s), U16Max)
    ELSE ParseBounded(s, U16Max)

\* the port of "address:port".parse::<SocketAddr>(): decimal digits, within u16
parse_port(s) == ParseBounded(s, U16Max)

\* bound on the length of the line typed at the port prompt
MaxPortLen == 5

\* the characters a line is made of, and some lines of their own
PortChars == {"0", "5", "6", "+", "x"}

PortExamples == { <<"6", "5", "5", "3", "5">>, <<"6", "5", "5", "3", "6">>,
                  <<" ", "8", "0", "8", "0">>, <<"1">> }

PortTyped == UNION { [1 .. n -> PortChars] : n \in 0 .. MaxPortLen } \cup PortExamples

\* both prompts are about to read the same line
PortInit ==
    /\ p_pc = "prompt"
    /\ cp_pc = "prompt"
    /\ ui_port \in { Append(t, "\n") : t \in PortTyped }
    /\ setup_port = <<>>
    /\ port = 0

\* daemonsetup: one iteration of the port loop; continue asks again
PromptPort ==
    /\ p_pc = "prompt"
    /\ LET t == Trim(ui_port) IN
       IF t = <<>>
       THEN setup_port' = to_string(DPORT) /\ p_pc' = "stored"
       ELSE IF t = <<"0">> \/ ~contains_only_numbers(t)
            THEN p_pc' = "reprompt" /\ UNCHANGED setup_port
            ELSE setup_port' = t /\ p_pc' = "stored"
    /\ UNCHANGED <<endpoint, clientVars, serverVars, addrVars, daemonVars, ipcVars, running,
                   cp_pc, ui_port, port>>

\* main of the server with the stored PORT: exit(1) when it holds no digit,
\* then addr_str.parse().expect("Invalid socket address")
StartPort ==
    /\ p_pc = "stored"
    /\ p_pc' = IF contains_no_numbers(setup_port) THEN "exit1"
               ELSE IF parse_port(setup_port) = ParseError THEN "panic"
               ELSE "bound"
    /\ UNCHANGED <<endpoint, clientVars, serverVars, addrVars, daemonVars, ipcVars, running,
                   cp_pc, ui_port, setup_port, port>>

\* clientsetup: one iteration of the port loop
ClientPromptPort ==
    /\ cp_pc = "prompt"
    /\ LET t == Trim(ui_port) IN
       IF t = <<>>
       THEN port' = DPORT /\ cp_pc' = "accepted"
       ELSE IF parse_u16(t) >= 1
            THEN port' = parse_u16(t) /\ cp_pc' = "accepted"
            ELSE cp_pc' = "reprompt" /\ UNCHANGED port
    /\ UNCHANGED <<endpoint, clientVars, serverVars, addrVars, daemonVars, ipcVars, running,
                   p_pc, ui_port, setup_port>>

(***************************************************************************)
(* The system.                                                             *)
(***************************************************************************)
Init ==
    /\ endpoint \in {"luminum", "other"}
    /\ ClientInit
    /\ ServerInit
    /\ AddrIdle
    /\ DaemonIdle
    /\ IpcIdle
    /\ PortIdle

ClientMain ==
    \/ ClientConnectOk
    \/ ClientWake
    \/ ClientRegCheck
    \/ \E werr \in BOOLEAN : ClientWrite(werr)

Listener ==
    \/ ListenerLock
    \/ ListenerRead
    \/ ListenerPersist
    \/ ListenerReport

Server ==
    /\ endpoint = "luminum"
    /\ \/ \E beh \in PeerBehaviours, f \in PeerFrames \cup {NoFrame} : SvrAccept(beh, f)
       \/ SvrTlsAccept
       \/ \E ok \in BOOLEAN : Handshake(ok)
       \/ \E got \in {"data", "eof", "err"}, closed \in {"eof", "err"} :
             SvrHandleClient(got, closed)

Peers ==
    /\ endpoint = "luminum"
    /\ \/ \E p \in OtherPeers : PeerConnect(p)
       \/ SvrAcceptErr

Environment ==
    \/ \E k \in KeyInputs : ClientSetup(k)
    \/ \E envOk \in BOOLEAN : ClientStart(envOk)
    \/ ClientConnectFail
    \/ \E ok \in BOOLEAN : ClientTlsOther(ok)
    \/ ClientBreak
    \/ \E f \in ServerFrames : OtherSend(f)
    \/ \E how \in {"eof", "err"} : OtherClose(how)

\* Two deployments are followed, told apart by endpoint: the client enrolled
\* at the Luminum server of this repository, which other peers reach too,
\* and the client pointed at some other TLS server.
Next == ClientMain \/ Listener \/ Server \/ Peers \/ Environment

Spec == Init /\ [][Next]_vars

\* every thread that can take a step eventually takes one; nothing is
\* assumed of the operator, the network or the peers
FairSpec ==
    /\ Init /\ [][Next]_vars
    /\ WF_vars(ClientMain)
    /\ WF_vars(Listener)
    /\ WF_vars(Server)

(***************************************************************************)
(* The system with a server that the operator may stop.                    *)
(***************************************************************************)
ServerStop ==
    \/ \E closed \in {"eof", "err"} : SvrBreak(closed)
    \/ HandshakeAborted

StopNext == Next \/ ServerStop

StopSpec == Init /\ [][StopNext]_vars

(***************************************************************************)
(* One channel of the client, to a TLS server that writes a sequence of    *)
(* frames on it.                                                           *)
(***************************************************************************)
ChanInit ==
    /\ endpoint = "other"
    /\ ClientInit
    /\ ServerInit
    /\ AddrIdle
    /\ DaemonIdle
    /\ IpcIdle
    /\ PortIdle

ChanEnvironment ==
    \/ \E k \in KeyInputs : ClientSetup(k)
    \/ \E envOk \in BOOLEAN : ClientStart(envOk)
    \/ ClientConnectFail
    \/ \E ok \in BOOLEAN : ClientTlsOther(ok)
    \/ ClientBreak
    \/ \E f \in ServerFrames : OtherBurst(f)
    \/ \E how \in {"eof", "err"} : OtherClose(how)

ChanNext == ClientMain \/ Listener \/ ChanEnvironment

ChanSpec == ChanInit /\ [][ChanNext]_vars

(***************************************************************************)
(* The client's local control plane: the main thread up to and in the      *)
(* accept loop, the workers and the local peers.  The listener thread and  *)
(* the frames of the server are followed in Spec and ChanSpec.             *)
(***************************************************************************)
IpcInit ==
    /\ endpoint = "other"
    /\ ClientInit
    /\ ServerInit
    /\ AddrIdle
    /\ DaemonIdle
    /\ IpcIdle
    /\ PortIdle

IpcWorkers ==
    \/ \E p \in LocalPeers, ok \in BOOLEAN : IpcRead(p, ok)
    \/ \E p \in LocalPeers : IpcLockSlot(p)
    \/ \E p \in LocalPeers : IpcStore(p)

IpcEnvironment ==
    \/ \E k \in KeyInputs : ClientSetup(k)
    \/ \E envOk \in BOOLEAN : ClientStart(envOk)
    \/ ClientConnectFail
    \/ \E ok \in BOOLEAN : ClientTlsOther(ok)
    \/ ClientBreak
    \/ \E p \in LocalPeers : LocalConnect(p)
    \/ \E p \in LocalPeers, n \in SendSizes : LocalSend(p, n)
    \/ \E p \in LocalPeers, how \in {"eof", "err"} : LocalClose(p, how)

IpcNext == ClientMain \/ IpcAccept \/ IpcWorkers \/ IpcEnvironment

IpcSpec == IpcInit /\ [][IpcNext]_vars

(***************************************************************************)
(* One line typed at the port prompts of the server's and of the client's  *)
(* setup, and the server's start with what was stored.                     *)
(***************************************************************************)
PortSpecInit ==
    /\ endpoint = "luminum"
    /\ ClientInit
    /\ ServerInit
    /\ AddrIdle
    /\ DaemonIdle
    /\ IpcIdle
    /\ PortInit

PortNext == PromptPort \/ StartPort \/ ClientPromptPort

PortSpec == PortSpecInit /\ [][PortNext]_vars

(***************************************************************************)
(* The classification of one local address.                                *)
(***************************************************************************)
AddrSpecInit ==
    /\ endpoint = "luminum"
    /\ ClientInit
    /\ ServerInit
    /\ AddrInit
    /\ DaemonIdle
    /\ IpcIdle
    /\ PortIdle

AddrNext == ClassifyAddress

AddrSpec == AddrSpecInit /\ [][AddrNext]_vars

(***************************************************************************)
(* The server's installation: setup runs and service starts, and the       *)
(* client's setup.                                                         *)
(***************************************************************************)
SetupInit ==
    /\ endpoint = "luminum"
    /\ ClientInit
    /\ ServerInit
    /\ AddrIdle
    /\ DaemonInit
    /\ IpcIdle
    /\ PortIdle

SetupNext ==
    \/ \E setup \in BOOLEAN, installed \in BOOLEAN :
          c_why = "never" /\ DaemonRun(setup, installed)
    \/ SetupPrompts
    \/ \E answer \in Answers : AskUse(answer)
    \/ \E ui_passphrase \in Passphrases : UsePass(ui_passphrase)
    \/ \E failAt \in 0 .. 4 : RemoveOld(failAt)
    \/ \E i \in 1 .. 4, ok \in BOOLEAN : SetupRename(i, ok)
    \/ \E keypass \in Passphrases, fail \in GenerateFailures : GenerateKey(keypass, fail)
    \/ CertCheck
    \/ Tick
    \/ CertNotBefore
    \/ CertNotAfter
    \/ \E crtOk \in BOOLEAN, pfxOk \in BOOLEAN : CertWrite(crtOk, pfxOk)
    \/ \E k \in ServerKeys, db \in DbPasswords, failAt \in 0 .. 7 : WriteConfig(k, db, failAt)
    \/ SetupInterrupt
    \/ DaemonImport
    \/ \E envOk \in BOOLEAN : DaemonVault(envOk)
    \/ DaemonIdentity
    \/ DaemonBreak
    \/ \E k \in KeyInputs : d_runs = 0 /\ ClientSetup(k)

\* Either the server's installation or the client's is followed: the two
\* programs are set up independently of each other.
SetupSpec == SetupInit /\ [][SetupNext]_vars

(***************************************************************************)
(* Properties.                                                             *)
(***************************************************************************)
UidRows(rows) == RowsOf(rows, "UID")

\* C1: a client whose CONFIG holds a UID row at startup writes no register
\* message during that run, and never waits to write one.
C1_NoRegisterWhenUidPresent ==
    uidAtStart => (sentRegs = 0 /\ c_pc # "wlock")

\* C1, its case: a run that started with a UID row went through the
\* registration check and reached the IPC loop.
C1_Witness == uidAtStart /\ c_pc = "ipc"

\* C2: CONFIG holds at most one UID row, and once a UID row is there the
\* UID rows never change again.
C2_UidRecordedOnce ==
    [][ /\ Len(UidRows(cfgRows')) <= 1
        /\ UidRows(cfgRows) # <<>> => UidRows(cfgRows') = UidRows(cfgRows) ]_vars

\* C3: the UID rows of CONFIG change only while the listener holds a reply
\* whose action is "register", whose status is "OK" and whose data carries
\* a non-empty uid.
C3_UidOnlyFromValidReply ==
    [][ UidRows(cfgRows') # UidRows(cfgRows) =>
            /\ response.action = "register"
            /\ response.status = "OK"
            /\ response.hasData
            /\ response.uid \notin {NoUid, ""} ]_vars

\* C4: once the client, started without a UID, has its channel and is about
\* to write the register message, it eventually has written exactly one,
\* unless the process has ended first.
C4_RegisterEventuallySent ==
    (c_pc = "wlock") ~> (sentRegs = 1 \/ c_pc = "off")

\* the replies among ws that grant a registration with a UID
Grants(ws) ==
    { i \in 1 .. Len(ws) : IsRegistered(ws[i]) /\ ws[i].hasData /\ ws[i].uid \notin {NoUid, ""} }

\* the register requests read by the server that carry the key k / another key
WithKey(k) == { i \in 1 .. Len(svrHandled) : svrHandled[i].serverkey = k }
WithoutKey(k) == { i \in 1 .. Len(svrHandled) : svrHandled[i].serverkey # k }

\* C5: once the server has handled the register request of a client that
\* presents the correct enrollment key, it has recorded exactly one
\* registration and written a register/OK reply that carries a UID.
C5_EnrollmentRecorded ==
    Cardinality(WithKey(ServerKey)) = 1 =>
        (Cardinality(clientsDb) = 1 /\ Grants(svrWrites) # {})

\* C6: once the server has handled a register request whose enrollment key
\* differs from its own, it has written a reply whose status is not "OK",
\* has issued no UID and holds no registration record.
C6_MismatchRejected ==
    WithoutKey(ServerKey) # {} /\ WithKey(ServerKey) = {} =>
        /\ \E i \in 1 .. Len(svrWrites) :
              svrWrites[i].action = "register" /\ svrWrites[i].status # "OK"
        /\ Grants(svrWrites) = {}
        /\ clientsDb = {}

\* C7: the server has issued as many different UIDs as it has handled
\* register requests that carry the correct enrollment key.
C7_UidsPairwiseDistinct ==
    Cardinality({ svrWrites[i].uid : i \in Grants(svrWrites) }) = Cardinality(WithKey(ServerKey))

PerConnectionFailures == {"tlsfail", "readerr", "malformed"}

\* C8: a step in which the server reports a failed TLS accept, a read error
\* or a malformed payload ends with the main thread back at
\* listener.accept(), the failed connection dropped.
C8_FailureIsolated ==
    [][ (svrLog' \in PerConnectionFailures /\ svrLog' # svrLog) =>
            (svr_pc' = "accept" /\ svr_conn' = NoConn) ]_vars

\* C8, its case: a connection has failed, it has been reported, and the
\* server is at listener.accept() with the next connection waiting.
C8_Witness ==
    svrLog \in PerConnectionFailures /\ svr_pc = "accept" /\ backlog # <<>>

\* the far end of the connection being served will never let the pending
\* TLS accept or read return
Stalled ==
    \/ svr_pc = "handshake" /\ svr_conn.beh = "hs_stall"
    \/ svr_pc = "read" /\ svr_conn.peer = "peer" /\ svr_conn.beh = "silent"

\* C9: no connection waits in the accept queue behind a stalled peer.
C9_StalledPeerDoesNotBlock == ~(Stalled /\ backlog # <<>>)

\* C10: no failed attempt to establish the connection, TCP connect or TLS
\* handshake, ends the client.
C10_NoGiveUp == c_why \notin {"connfail", "tlsfail"}

\* C10 amended: a failed TCP connect is followed by a sleep of RetrySecs and
\* another connect, and only the break handler ends the process in the
\* connect loop; a failed TLS handshake ends the process with exit code 1.
C10_ConnectRetried ==
    [][ /\ (c_pc = "connect" /\ c_pc' # "connect") =>
               \/ c_pc' = "tls"
               \/ c_pc' = "sleep" /\ sleepSecs' = RetrySecs
               \/ c_pc' = "off" /\ c_why' = "break"
        /\ (c_pc = "sleep" /\ c_pc' # "sleep") =>
               \/ c_pc' = "connect"
               \/ c_pc' = "off" /\ c_why' = "break"
        /\ (c_pc = "tls" /\ c_pc' = "off" /\ c_why' # "break") =>
               (c_why' = "tlsfail" /\ c_exit' = 1) ]_vars

\* C10, its case: the TCP connect succeeded after two failed attempts.
C10_Witness == c_pc = "tls" /\ connFails >= 2

\* C11: once the far end has closed the established channel, the running
\* client eventually has an open channel again, unless the process has ended
\* first.
C11_ChannelReestablished ==
    (Established /\ s2cState # "open") ~> (c_pc = "off" \/ (Established /\ s2cState = "open"))

\* C20: the listener thread never ends in a panic and the Mutex around
\* server_stream is never poisoned, whatever payload the far end has written.
C20_BadPayloadTolerated == l_pc # "panicked" /\ ~lockPoisoned

\* the complete ServerMessages among the frames of buf, in arrival order
RECURSIVE CompleteMessages(_)
CompleteMessages(buf) ==
    IF buf = <<>> THEN <<>>
    ELSE IF Head(buf).fmt = "msgpack"
         THEN <<Head(buf)>> \o CompleteMessages(Tail(buf))
         ELSE CompleteMessages(Tail(buf))

\* C19: when the receive loop has ended at the end of a stream on which only
\* complete ServerMessages arrived, it has processed every one of them, each
\* once and in arrival order.
C19_AllProcessedInOrder ==
    (l_pc = "done" /\ s2cState = "eof" /\ CompleteMessages(buffer) = buffer) =>
        processed = buffer

\* the pieces of s between the occurrences of sep
RECURSIVE Split(_, _, _)
Split(s, sep, piece) ==
    IF s = <<>> THEN <<piece>>
    ELSE IF Head(s) = sep THEN <<piece>> \o Split(Tail(s), sep, <<>>)
         ELSE Split(Tail(s), sep, Append(piece, Head(s)))

\* s is n groups separated by sep, each of 1 .. m characters of class
IsGroups(s, sep, n, m, class) ==
    LET g == Split(s, sep, <<>>) IN
    /\ Len(g) = n
    /\ \A i \in 1 .. n : Len(g[i]) \in 1 .. m /\ \A j \in 1 .. Len(g[i]) : g[i][j] \in class

\* C17: the ipv4 field holds the local address when that is four
\* dot-separated groups of 1-3 digits and is blank otherwise; the ipv6 field
\* holds it when it is eight colon-separated groups of 1-4 hex digits and is
\* blank otherwise.
C17_AddressClassified ==
    a_pc = "done" =>
        /\ ipv4_address = IF IsGroups(ip_address, ".", 4, 3, Digits) THEN ip_address ELSE <<>>
        /\ ipv6_address = IF IsGroups(ip_address, ":", 8, 4, HexDigits) THEN ip_address ELSE <<>>

\* C17, its case: an address of eight colon-separated groups has been
\* classified and fills the ipv6 field only.
C17_Witness ==
    /\ a_pc = "done"
    /\ Len(Split(ip_address, ":", <<>>)) = 8
    /\ ipv6_address = ip_address
    /\ ipv4_address = <<>>

\* the positions of main after the --setup branch
ServicePositions == {"import", "vault", "identity", "serving"}

\* the keys of the rows of CONFIG
ConfigKeys(rows) == { rows[i][1] : i \in 1 .. Len(rows) }

\* C12: a run with --setup that finds a configuration store exits with code 1
\* and leaves every file and the store as they were; one that finds none
\* never reaches the service startup and, when it has written the
\* configuration, exits with code 0.  The same holds of the client's setup.
C12_SetupRefusedOrDone ==
    [][ /\ (d_pc = "off" /\ d_runs' # d_runs /\ d_mode' = "setup" /\ dCfgExists) =>
               /\ d_pc' = "off" /\ d_exit' = 1
               /\ files' = files /\ dCfgExists' /\ dCfgRows' = dCfgRows
        /\ d_mode' = "setup" => d_pc' \notin ServicePositions
        /\ (d_mode = "setup" /\ d_pc # "off" /\ dCfgRows' # dCfgRows /\ Len(dCfgRows') = 5) =>
               (d_pc' = "off" /\ d_exit' = 0)
        /\ (d_mode = "setup" /\ d_pc # "off" /\ d_pc' = "off" /\ d_exit' = 0) =>
               ConfigKeys(dCfgRows') = {"SVRKEY", "IPADDR", "PORT", "PKPASS", "DBPASS"}
        /\ clientVars' # clientVars =>
               /\ c_pc' = "off"
               /\ IF cfgExists
                  THEN c_exit' = 1 /\ cfgExists' /\ cfgRows' = cfgRows
                  ELSE c_exit' = 0 /\ cfgExists'
                       /\ ConfigKeys(cfgRows') = {"SHOST", "SPORT", "SVRKEY"} ]_vars

\* C12, its case: a setup run has written the configuration and exited, and
\* the next run with --setup has been refused.
C12_Witness ==
    /\ d_mode = "setup" /\ d_pc = "off" /\ d_why = "cfgexists" /\ d_exit = 1
    /\ Len(dCfgRows) = 5

\* every artifact has its backup
AllRenamed(fs) == \A i \in 1 .. 4 : fs[Old(Artifacts[i])] # NoFile

\* C13: in the rotation flow an artifact path receives new content only when
\* all four backups are there, and a rename that does not take place ends
\* the process with a non-zero exit code and leaves every file as it was.
C13_RotationAfterAllRenames ==
    [][ /\ (d_path = "rotate" /\ \E i \in 1 .. 4 :
                files'[Artifacts[i]] # files[Artifacts[i]] /\ files'[Artifacts[i]] # NoFile) =>
               (AllRenamed(files) /\ d_pc \in {"rotkey", "cert_write"})
        /\ \A i \in 1 .. 4 :
              (d_pc = RenamePc[i] /\ files'[Old(Artifacts[i])] = NoFile) =>
                  (d_pc' = "off" /\ d_exit' # 0 /\ files' = files) ]_vars

\* C13, its case: a rotation has renamed all four artifacts and generated a
\* new key pair, certificate and bundle.
C13_Witness ==
    /\ d_path = "rotate" /\ d_pc = "config"
    /\ AllRenamed(files)
    /\ \A i \in 1 .. 4 : files[Artifacts[i]].gen = d_gen /\ files[Artifacts[i]] # NoFile
    /\ d_gen > 0

\* C14: a setup run in which the writing of the certificate or of the
\* identity bundle has failed writes no configuration and does not exit
\* with code 0.
C14_SetupFailureIsFatal ==
    (d_mode = "setup" /\ d_errs # {}) =>
        (dCfgRows = <<>> /\ ~(d_pc = "off" /\ d_exit = 0))

\* C15: no path holds an unencrypted private key, PKPASS and DBPASS are held
\* as ciphertext only, and no value kept in the clear is the key passphrase
\* or the database password.
C15_NoPlaintextSecrets ==
    /\ \A p \in Paths : files[p].kind # "plainkey"
    /\ \A i \in 1 .. Len(dCfgRows) :
          /\ dCfgRows[i][1] \in {"PKPASS", "DBPASS"} =>
                (dCfgRows[i][2].enc = "aes256" /\ dCfgRows[i][2].key \in ServerKeys)
          /\ dCfgRows[i][2].enc = "clear" =>
                dCfgRows[i][2].text \notin {sealed.pkpass, sealed.dbpass}

\* C15, its case: setup has generated a key pair under a passphrase, written
\* the configuration and exited with code 0.
C15_Witness ==
    /\ d_mode = "setup" /\ d_pc = "off" /\ d_why = "setupdone"
    /\ files[DKPATH].gen > 0
    /\ sealed.pkpass # <<>>
    /\ Len(dCfgRows) = 5

C18_ValidityIsOneYear ==
    d_pc = "cert_write" =>
        /\ not_before <= clock
        /\ clock <= not_after
        /\ not_after - not_before = 365 * 86400

ListenerInside == l_pc \in {"read", "persist", "report"}

\* C22: the listener reads the stream only while it holds the Mutex, and
\* write_to_server writes a message, whole, only while the listener does not
\* hold it, leaving the Mutex free again.
C22_StreamAccessExclusive ==
    [][ /\ ListenerInside' => streamLock' = "listener"
        /\ sentRegs' = sentRegs + 1 =>
               /\ ~ListenerInside /\ streamLock = "free" /\ streamLock' = "free"
               /\ IsLive(svr_conn) => svr_conn'.frame = RegisterMessage(clientconfig) ]_vars

\* C22, its case: the register message has been written and taken up by
\* the server's connection, and the listener now reads under the Mutex.
C22_Witness ==
    /\ sentRegs = 1 /\ l_pc = "read" /\ streamLock = "listener"
    /\ svr_conn.frame.action = "register"

\* C23: every accepted loopback connection has a worker of its own; a worker
\* reads once, at most BufferSize bytes, and then stores its stream in the
\* slot; the slot's Mutex is held only by a worker that has finished its
\* read, so a peer that is silent or whose read fails holds up neither the
\* accept loop nor the other workers.
C23_LocalWorkers ==
    [][ \A p \in LocalPeers :
          LET c == ipc_conns'[p] IN
          /\ (c.conn = "accepted") => c.w # "none"
          /\ c.reads = (IF c.w \in {"none", "reading"} THEN 0 ELSE 1)
          /\ c.got <= BufferSize
          /\ (ipcLock' = p) = (c.w = "storing")
          /\ (c.w = "done" /\ ipc_conns[p].w # "done") =>
                (ipc_conns[p].w = "storing" /\ ipcstream' = p)
          /\ (c.w = "locking" /\ ipcLock' # "free") => ipc_conns'[ipcLock'].w = "storing"
          /\ (ipc_queue' # <<>> /\ Head(ipc_queue') = p /\ c_pc' = "ipc") =>
                c.conn = "queued" ]_vars

\* C23, its case: one peer is silent and its worker blocked in the read,
\* the other's worker has read a full buffer and stored its stream.
C23_Witness ==
    /\ ipc_conns["cli1"].w = "reading"
    /\ ipc_conns["cli1"].avail = 0 /\ ipc_conns["cli1"].far = "open"
    /\ ipc_conns["cli2"].w = "done" /\ ipc_conns["cli2"].got = BufferSize
    /\ ipcstream = "cli2"

\* C24: when the break handler has run, the server process has ended,
\* wherever its main thread was (waiting in accept, in the TLS accept or in
\* handle_client's read), and from then on nothing is accepted, handled,
\* reported or written by the server.
C24_BreakEndsServer ==
    [][ /\ ~running' => svr_pc' = "exited"
        /\ svr_pc = "exited" => UNCHANGED <<serverVars, running>> ]_vars

\* C24, its case: the break came while handle_client was waiting in its
\* read on the channel of the client, which had not written yet.
C24_Witness ==
    /\ svr_pc = "exited" /\ ~running
    /\ c_pc = "wlock" /\ sentRegs = 0 /\ s2cState = "eof" /\ svrHandled = <<>>

\* C25: when a backup rename has failed and ended the setup, the files are
\* where they were when rotation began: the private key, which rotation
\* found at DKPATH, is still there, and no artifact has gone to its backup
\* path while its own path is left empty.
C25_RenameFailureRestores ==
    (d_pc = "off" /\ d_why = "renamefail") =>
        /\ files[DKPATH] # NoFile
        /\ \A a \in DOMAIN Artifacts :
              files[Old(Artifacts[a])] # NoFile => files[Artifacts[a]] # NoFile

\* a setup run has ended with exit code 0
SetupDone == d_pc = "off" /\ d_mode = "setup" /\ d_why = "setupdone" /\ d_exit = 0

\* C26: after a setup that exited 0 the private key, the public key, the
\* certificate and the identity bundle all exist, and the certificate and
\* the bundle come from the key pair that is at the key paths.
C26_ArtifactsFromCurrentKey ==
    SetupDone =>
        /\ files[DKPATH].kind \in {"enckey", "plainkey"}
        /\ files[DPPATH].kind = "pubkey" /\ files[DPPATH].gen = files[DKPATH].gen
        /\ files[DCPATH].kind = "cert" /\ files[DCPATH].gen = files[DKPATH].gen
        /\ files[DIPATH].kind = "bundle" /\ files[DIPATH].gen = files[DKPATH].gen

\* the positions of the "use this key?" loop (lines 446-527)
KeyPromptPositions == {"askuse", "usepass", "rm_old", "ren_key", "ren_pub", "ren_crt",
                       "ren_pfx", "rotkey"}

\* every line read so far at the "use this key?" prompt is "Y", "y" or empty
AllYes(lines) ==
    LET g == Split(lines, "\n", <<>>) IN
    \A i \in 1 .. Len(g) : Trim(g[i]) \in {<<"Y">>, <<"y">>, <<>>}

\* C27: in a setup run that found a private key, as long as every answer at
\* the "use this key?" prompt is a yes, no step of the prompt loop changes a
\* file, whatever passphrase is entered: the answer leads to the passphrase
\* prompt and that one out of the loop.
C27_YesKeepsFiles ==
    [][ (/\ d_mode = "setup" /\ d_pc \in KeyPromptPositions
         /\ AllYes(IF d_pc' = "off" THEN ui_exkey ELSE ui_exkey')) =>
            /\ files' = files
            /\ d_pc = "askuse" => d_pc' \in {"usepass", "off"}
            /\ d_pc = "usepass" => d_pc' \in {"certcheck", "off"} ]_vars

\* C27, its case: the operator has answered y and entered an empty
\* passphrase, and the loop is left with the files of the installation as
\* they were found.
C27_Witness ==
    /\ d_pc = "certcheck" /\ d_path = "reuse" /\ d_runs = 1
    /\ ui_exkey = <<"y", "\n">> /\ setup_passphrase = <<>>
    /\ files[DKPATH] = EncryptedKey(0, InstalledPassphrase)

\* C28: after a setup that exited 0 the passphrase sealed as PKPASS decrypts
\* the private key at DKPATH and opens the identity bundle at DIPATH.
C28_SealedPassphraseOpens ==
    SetupDone =>
        /\ files[DKPATH].kind = "enckey" /\ files[DKPATH].pass = sealed.pkpass
        /\ files[DIPATH].kind = "bundle" /\ files[DIPATH].pass = sealed.pkpass

\* C29: whenever the server's configuration store exists, it holds SVRKEY,
\* IPADDR, PORT, PKPASS and DBPASS, each once.
C29_ConfigComplete ==
    dCfgExists =>
        /\ Len(dCfgRows) = 5
        /\ ConfigKeys(dCfgRows) = {"SVRKEY", "IPADDR", "PORT", "PKPASS", "DBPASS"}

\* C30: a port that the server's setup has stored is a decimal number in
\* 1 .. 65535, so the start that follows builds its bind address; and the
\* client's port prompt accepts a line exactly when the server's does.
C30_StoredPortValid ==
    /\ p_pc \in {"stored", "bound", "exit1", "panic"} =>
          /\ contains_only_numbers(setup_port)
          /\ DecimalValue(setup_port) \in 1 .. U16Max
    /\ p_pc \notin {"exit1", "panic"}
    /\ (p_pc \notin {"none", "prompt"} /\ cp_pc \notin {"none", "prompt"}) =>
          ((p_pc = "reprompt") = (cp_pc = "reprompt"))

====
